---------------------------- MODULE Spec2Model ----------------------------
(***************************************************************************)
(* A model of starlette/routing.py: path compilation, the matchable nodes  *)
(* (Route, WebSocketRoute, Mount, Host, Lifespan), the Router's dispatch   *)
(* and reverse lookup, and the lifespan handshake.                         *)
(*                                                                         *)
(* Python strings are sequences of one-character strings, so that          *)
(* slicing, startswith, rstrip and replace are computed as the code        *)
(* computes them.  A dict is a sequence of [k, v] entries with distinct    *)
(* keys, kept in insertion order as Python keeps it.                       *)
(***************************************************************************)
EXTENDS Integers, Sequences, FiniteSets, TLC

(***************************************************************************)
(* Strings                                                                 *)
(***************************************************************************)
Max(S) == CHOOSE x \in S : \A y \in S : y <= x

Min(S) == CHOOSE x \in S : \A y \in S : x <= y

\* s[i:] with a 1-based i
Tail_(s, i) == SubSeq(s, i, Len(s))

\* s.startswith(p)
StartsWith(s, p) == Len(p) <= Len(s) /\ SubSeq(s, 1, Len(p)) = p

\* s.endswith(p)
EndsWith(s, p) == Len(p) <= Len(s) /\ SubSeq(s, Len(s) - Len(p) + 1, Len(s)) = p

\* s.rstrip(c)
RStrip(s, c) ==
    LET keep == {n \in 0..Len(s) : \A i \in (n + 1)..Len(s) : s[i] = c}
    IN  SubSeq(s, 1, Min(keep))

\* s.lstrip(c)
LStrip(s, c) ==
    LET drop == {n \in 0..Len(s) : \A i \in 1..n : s[i] = c}
    IN  SubSeq(s, Max(drop) + 1, Len(s))

\* s.split(c)[0]
SplitFirst(s, c) ==
    LET hits == {i \in 1..Len(s) : s[i] = c}
    IN  IF hits = {} THEN s ELSE SubSeq(s, 1, Min(hits) - 1)

\* old occurs in s at position i
OccursAt(s, old, i) ==
    i + Len(old) - 1 <= Len(s) /\ SubSeq(s, i, i + Len(old) - 1) = old

\* old in s
Contains(s, old) == \E i \in 1..Len(s) : OccursAt(s, old, i)

RECURSIVE ReplaceFrom(_, _, _, _)
ReplaceFrom(s, old, new, i) ==
    IF i > Len(s) THEN <<>>
    ELSE IF OccursAt(s, old, i) THEN new \o ReplaceFrom(s, old, new, i + Len(old))
    ELSE <<s[i]>> \o ReplaceFrom(s, old, new, i + 1)

\* s.replace(old, new), for a non-empty old
Replace(s, old, new) == ReplaceFrom(s, old, new, 1)

\* path[: -n] for n >= 1
DropLast(s, n) == SubSeq(s, 1, Len(s) - n)

(***************************************************************************)
(* Dicts, in insertion order                                               *)
(***************************************************************************)
EmptyDict == <<>>

Keys(d) == {d[i].k : i \in 1..Len(d)}

HasKey(d, key) == key \in Keys(d)

\* d[key], for a key of d
Get(d, key) == d[CHOOSE i \in 1..Len(d) : d[i].k = key].v

\* d[key] = value: a present key keeps its place, a new one goes last
Put(d, key, value) ==
    IF HasKey(d, key)
    THEN [i \in 1..Len(d) |-> IF d[i].k = key THEN [k |-> key, v |-> value] ELSE d[i]]
    ELSE Append(d, [k |-> key, v |-> value])

\* d.pop(key)
Pop(d, key) == SelectSeq(d, LAMBDA e : e.k # key)

RECURSIVE Update(_, _)
\* d.update(e)
Update(d, e) ==
    IF e = <<>> THEN d ELSE Update(Put(d, e[1].k, e[1].v), Tail(e))


(***************************************************************************)
(* Convertors (starlette/convertors.py): each has a regex fragment, a      *)
(* convert (string to value) and a to_string (value to string).  "str"     *)
(* accepts one or more characters other than "/", "path" any remaining     *)
(* characters; both convert a string to itself.                            *)
(***************************************************************************)
STR == <<"s", "t", "r">>

PATH == <<"p", "a", "t", "h">>

CONVERTOR_TYPES == {STR, PATH}

\* whether the convertor's regex fragment accepts the character c
ConvertorAccepts(conv, c) == IF conv = STR THEN c # "/" ELSE TRUE

\* the fewest characters the fragment matches: "+" for str, "*" for path
ConvertorMin(conv) == IF conv = STR THEN 1 ELSE 0

\* Convertor.convert
convert(conv, value) == value

\* Convertor.to_string
to_string(conv, value) == value

(***************************************************************************)
(* compile_path                                                            *)
(***************************************************************************)
IdentStart == {"a", "b", "h", "i", "m", "n", "p", "r", "s", "t", "u", "x", "_"}

IdentChar == IdentStart \cup {"0", "1"}

\* The last index of the identifier [a-zA-Z_][a-zA-Z0-9_]* starting at i, 0 if none
IdentEnd(path, i) ==
    IF i > Len(path) \/ path[i] \notin IdentStart THEN 0
    ELSE Max({j \in i..Len(path) : \A k \in (i + 1)..j : path[k] \in IdentChar})

CharAt(path, i) == IF i >= 1 /\ i <= Len(path) THEN path[i] ELSE ""

\* PARAM_REGEX matched at index i of path: "{name}" or "{name:type}"
ParamAt(path, i) ==
    LET e1 == IdentEnd(path, i + 1)
        e2 == IdentEnd(path, e1 + 2)
    IN  IF CharAt(path, i) # "{" \/ e1 = 0 THEN [ok |-> FALSE]
        ELSE IF CharAt(path, e1 + 1) = "}"
        THEN [ok |-> TRUE, name |-> SubSeq(path, i + 1, e1), conv |-> STR, end |-> e1 + 1]
        ELSE IF CharAt(path, e1 + 1) = ":" /\ e2 # 0 /\ CharAt(path, e2 + 1) = "}"
        THEN [ok |-> TRUE, name |-> SubSeq(path, i + 1, e1),
              conv |-> LStrip(SubSeq(path, e1 + 1, e2), ":"), end |-> e2 + 1]
        ELSE [ok |-> FALSE]

\* literal template text, copied into the regex as it is
Literals(s) == [i \in 1..Len(s) |-> [t |-> "lit", c |-> s[i]]]

Group(name, conv) == [t |-> "group", name |-> name, conv |-> conv]

Placeholder(name) == <<"{">> \o name \o <<"}">>

RECURSIVE CompileFrom(_, _, _, _)
\* the loop over PARAM_REGEX.finditer(path): i scans for the next match,
\* idx is the end of the previous one, acc the three results so far
CompileFrom(path, idx, i, acc) ==
    IF i > Len(path)
    THEN [path_regex |-> acc.path_regex \o Literals(Tail_(path, idx)) \o <<[t |-> "eol"]>>,
          path_format |-> acc.path_format \o Tail_(path, idx),
          param_convertors |-> acc.param_convertors]
    ELSE LET m == ParamAt(path, i)
         IN  IF m.ok
             THEN CompileFrom(path, m.end + 1, m.end + 1,
                    [path_regex |-> acc.path_regex \o Literals(SubSeq(path, idx, i - 1))
                                      \o <<Group(m.name, m.conv)>>,
                     path_format |-> acc.path_format \o SubSeq(path, idx, i - 1)
                                      \o Placeholder(m.name),
                     param_convertors |-> Put(acc.param_convertors, m.name, m.conv)])
             ELSE CompileFrom(path, idx, i + 1, acc)

compile_path(path) ==
    CompileFrom(path, 1, 1,
                [path_regex |-> <<[t |-> "bol"]>>, path_format |-> <<>>,
                 param_convertors |-> EmptyDict])

(***************************************************************************)
(* Pattern.match of Python's re, for the regexes compile_path builds:      *)
(* literals and greedy named groups between "^" and "$".  A "." of the     *)
(* template is the regex's any-character-but-newline, and "$" matches at   *)
(* the end or just before a final newline.                                 *)
(***************************************************************************)
NoRegexMatch == [matched |-> FALSE, groupdict |-> EmptyDict]

LiteralAccepts(c, ch) == IF c = "." THEN ch # "\n" ELSE ch = c

AtEnd(s, j) == j = Len(s) + 1 \/ (j = Len(s) /\ s[j] = "\n")

RECURSIVE MatchFrom(_, _, _, _)
\* match regex[i..] against s[j..]; a group takes the longest run that
\* lets the rest match (greedy, with backtracking)
MatchFrom(regex, i, s, j) ==
    IF i > Len(regex) THEN [matched |-> TRUE, groupdict |-> EmptyDict]
    ELSE IF regex[i].t = "bol" THEN MatchFrom(regex, i + 1, s, j)
    ELSE IF regex[i].t = "eol"
    THEN IF AtEnd(s, j) THEN MatchFrom(regex, i + 1, s, j) ELSE NoRegexMatch
    ELSE IF regex[i].t = "lit"
    THEN IF j <= Len(s) /\ LiteralAccepts(regex[i].c, s[j])
         THEN MatchFrom(regex, i + 1, s, j + 1)
         ELSE NoRegexMatch
    ELSE LET conv == regex[i].conv
             run == Max({n \in 0..(Len(s) - j + 1) :
                           \A k \in j..(j + n - 1) : ConvertorAccepts(conv, s[k])})
             fits == {n \in ConvertorMin(conv)..run :
                        MatchFrom(regex, i + 1, s, j + n).matched}
         IN  IF fits = {} THEN NoRegexMatch
             ELSE LET n == Max(fits)
                      rest == MatchFrom(regex, i + 1, s, j + n)
                  IN  [matched |-> TRUE,
                       groupdict |-> <<[k |-> regex[i].name, v |-> SubSeq(s, j, j + n - 1)]>>
                                       \o rest.groupdict]

\* path_regex.match(s)
RegexMatch(regex, s) == MatchFrom(regex, 1, s, 1)

\* the loop "matched_params[key] = self.param_convertors[key].convert(value)"
ConvertParams(groupdict, param_convertors) ==
    [i \in 1..Len(groupdict) |->
        [k |-> groupdict[i].k,
         v |-> convert(Get(param_convertors, groupdict[i].k), groupdict[i].v)]]

(***************************************************************************)
(* Python's None and optional values                                       *)
(***************************************************************************)
None == [some |-> FALSE]

Some(x) == [some |-> TRUE, v |-> x]

(***************************************************************************)
(* The Match enum                                                          *)
(***************************************************************************)
NONE == "NONE"

PARTIAL == "PARTIAL"

FULL == "FULL"

(***************************************************************************)
(* Scopes: a dict with string keys, as a function on the set of its keys.  *)
(***************************************************************************)
EmptyScope == <<>>

\* key in scope
In(key, scope) == key \in DOMAIN scope

\* scope.get(key, default)
ScopeGet(scope, key, default) == IF In(key, scope) THEN scope[key] ELSE default

\* scope.update(child_scope)
ScopeUpdate(scope, child_scope) ==
    [key \in DOMAIN scope \cup DOMAIN child_scope |->
        IF key \in DOMAIN child_scope THEN child_scope[key] ELSE scope[key]]

\* Headers(scope=scope).get(name, default): the first header of that name
HeaderGet(scope, name, default) ==
    LET headers == ScopeGet(scope, "headers", <<>>)
        hits == {i \in 1..Len(headers) : headers[i].k = name}
    IN  IF hits = {} THEN default ELSE headers[Min(hits)].v

(***************************************************************************)
(* Endpoints.  An endpoint is a function (or method), wrapped by           *)
(* request_response / websocket_session, or a class used as an ASGI app.   *)
(***************************************************************************)
Endpoint(id, name, isfunction) == [id |-> id, name |-> name, isfunction |-> isfunction]

get_name(endpoint) == endpoint.name

\* str.upper on the method names of the model
Upper(method) ==
    CASE method \in {"get", "Get"} -> "GET"
      [] method = "post" -> "POST"
      [] method = "head" -> "HEAD"
      [] OTHER -> method

(***************************************************************************)
(* Node constructors                                                       *)
(***************************************************************************)
\* allowed methods kept in the letter case they were declared in
RouteMethods_AsDeclared(endpoint, methods) ==
    LET given == IF endpoint.isfunction /\ ~methods.some THEN Some({"GET"}) ELSE methods
    IN  IF ~given.some THEN None
        ELSE Some(IF "GET" \in given.v THEN given.v \cup {"HEAD"} ELSE given.v)

\* Route.__init__, lines 162-167: the allowed methods
RouteMethods(endpoint, methods) ==
    LET given == IF endpoint.isfunction /\ ~methods.some THEN Some({"GET"}) ELSE methods
        upper == {Upper(m) : m \in given.v}
    IN  IF ~given.some THEN None
        ELSE Some(IF "GET" \in upper THEN upper \cup {"HEAD"} ELSE upper)

\* Route.__init__
Route(path, endpoint, methods, name) ==
    LET c == compile_path(path)
    IN  [kind |-> "Route", path |-> path, endpoint |-> endpoint,
         name |-> IF name.some THEN name.v ELSE get_name(endpoint),
         methods |-> RouteMethods(endpoint, methods),
         path_regex |-> c.path_regex, path_format |-> c.path_format,
         param_convertors |-> c.param_convertors]

\* WebSocketRoute.__init__
WebSocketRoute(path, endpoint, name) ==
    LET c == compile_path(path)
    IN  [kind |-> "WebSocketRoute", path |-> path, endpoint |-> endpoint,
         name |-> IF name.some THEN name.v ELSE get_name(endpoint),
         path_regex |-> c.path_regex, path_format |-> c.path_format,
         param_convertors |-> c.param_convertors]

\* Mount.__init__ with app=...; Mount(path, routes=...) is Mount(path, app=Router(routes))
Mount(path, app, name) ==
    LET c == compile_path(RStrip(path, "/") \o <<"/", "{">> \o PATH \o <<":">> \o PATH \o <<"}">>)
    IN  [kind |-> "Mount", path |-> RStrip(path, "/"), app |-> app, name |-> name,
         path_regex |-> c.path_regex, path_format |-> c.path_format,
         param_convertors |-> c.param_convertors]

\* Host.__init__
Host(host, app, name) ==
    LET c == compile_path(host)
    IN  [kind |-> "Host", host |-> host, app |-> app, name |-> name,
         host_regex |-> c.path_regex, host_format |-> c.path_format,
         param_convertors |-> c.param_convertors]

\* Router.__init__; default is None for the built-in not_found
Router(id, routes, redirect_slashes, default) ==
    [kind |-> "Router", id |-> id, routes |-> routes,
     redirect_slashes |-> redirect_slashes, default |-> default]

\* an ASGI app that is not a Router
App(id) == [kind |-> "App", id |-> id]

\* Mount.routes, Host.routes: getattr(self.app, "routes", None)
NodeRoutes(node) == IF node.app.kind = "Router" THEN Some(node.app.routes) ELSE None

(***************************************************************************)
(* matches                                                                 *)
(***************************************************************************)
NoMatch == [match |-> NONE, child_scope |-> EmptyScope]

\* dict(scope.get("path_params", {})) updated with the matched parameters
MergedParams(scope, matched_params) ==
    Update(ScopeGet(scope, "path_params", EmptyDict), matched_params)

\* "self.methods and scope["method"] not in self.methods"
MethodMismatch(route, scope) ==
    route.methods.some /\ route.methods.v # {} /\ scope["method"] \notin route.methods.v

\* a Route that reports no match at all when the method is not allowed
Route_matches_MethodFiltered(route, scope) ==
    IF scope["type"] = "http"
    THEN LET match == RegexMatch(route.path_regex, scope["path"])
         IN  IF match.matched /\ ~MethodMismatch(route, scope)
             THEN LET matched_params == ConvertParams(match.groupdict, route.param_convertors)
                  IN  [match |-> FULL,
                       child_scope |-> [endpoint |-> route.endpoint.id,
                                        path_params |-> MergedParams(scope, matched_params)]]
             ELSE NoMatch
    ELSE NoMatch

Route_matches(route, scope) ==
    IF scope["type"] = "http"
    THEN LET match == RegexMatch(route.path_regex, scope["path"])
         IN  IF match.matched
             THEN LET matched_params == ConvertParams(match.groupdict, route.param_convertors)
                      child_scope == [endpoint |-> route.endpoint.id,
                                      path_params |-> MergedParams(scope, matched_params)]
                  IN  IF MethodMismatch(route, scope)
                      THEN [match |-> PARTIAL, child_scope |-> child_scope]
                      ELSE [match |-> FULL, child_scope |-> child_scope]
             ELSE NoMatch
    ELSE NoMatch

WebSocketRoute_matches(route, scope) ==
    IF scope["type"] = "websocket"
    THEN LET match == RegexMatch(route.path_regex, scope["path"])
         IN  IF match.matched
             THEN LET matched_params == ConvertParams(match.groupdict, route.param_convertors)
                  IN  [match |-> FULL,
                       child_scope |-> [endpoint |-> route.endpoint.id,
                                        path_params |-> MergedParams(scope, matched_params)]]
             ELSE NoMatch
    ELSE NoMatch

\* a Mount that takes only the captured rest off the path, its "/" not
\* included, as the part consumed
Mount_matches_KeepsSlash(mount, scope) ==
    IF scope["type"] \in {"http", "websocket"}
    THEN LET path == scope["path"]
             match == RegexMatch(mount.path_regex, path)
         IN  IF match.matched
             THEN LET matched_params == ConvertParams(match.groupdict, mount.param_convertors)
                      remaining_path == <<"/">> \o Get(matched_params, PATH)
                      matched_path == DropLast(path, Len(remaining_path) - 1)
                      root_path == ScopeGet(scope, "root_path", <<>>)
                  IN  [match |-> FULL,
                       child_scope |->
                         [path_params |-> MergedParams(scope, Pop(matched_params, PATH)),
                          app_root_path |-> ScopeGet(scope, "app_root_path", root_path),
                          root_path |-> root_path \o matched_path,
                          path |-> remaining_path,
                          endpoint |-> mount.app.id]]
             ELSE NoMatch
    ELSE NoMatch

\* a Mount that gates on the method as a Route does: for an http request
\* that is not a GET its match is PARTIAL
Mount_matches_GatesOnMethod(mount, scope) ==
    IF scope["type"] \in {"http", "websocket"}
    THEN LET path == scope["path"]
             match == RegexMatch(mount.path_regex, path)
         IN  IF match.matched
             THEN LET matched_params == ConvertParams(match.groupdict, mount.param_convertors)
                      remaining_path == <<"/">> \o Get(matched_params, PATH)
                      matched_path == DropLast(path, Len(remaining_path))
                      root_path == ScopeGet(scope, "root_path", <<>>)
                  IN  [match |-> IF scope["type"] = "http" /\ scope["method"] # "GET"
                                 THEN PARTIAL ELSE FULL,
                       child_scope |->
                         [path_params |-> MergedParams(scope, Pop(matched_params, PATH)),
                          app_root_path |-> ScopeGet(scope, "app_root_path", root_path),
                          root_path |-> root_path \o matched_path,
                          path |-> remaining_path,
                          endpoint |-> mount.app.id]]
             ELSE NoMatch
    ELSE NoMatch

Mount_matches(mount, scope) ==
    IF scope["type"] \in {"http", "websocket"}
    THEN LET path == scope["path"]
             match == RegexMatch(mount.path_regex, path)
         IN  IF match.matched
             THEN LET matched_params == ConvertParams(match.groupdict, mount.param_convertors)
                      remaining_path == <<"/">> \o Get(matched_params, PATH)
                      matched_path == DropLast(path, Len(remaining_path))
                      root_path == ScopeGet(scope, "root_path", <<>>)
                  IN  [match |-> FULL,
                       child_scope |->
                         [path_params |-> MergedParams(scope, Pop(matched_params, PATH)),
                          app_root_path |-> ScopeGet(scope, "app_root_path", root_path),
                          root_path |-> root_path \o matched_path,
                          path |-> remaining_path,
                          endpoint |-> mount.app.id]]
             ELSE NoMatch
    ELSE NoMatch

\* a Host that matches its template against the whole header, port included
Host_matches_WithPort(node, scope) ==
    IF scope["type"] \in {"http", "websocket"}
    THEN LET match == RegexMatch(node.host_regex, HeaderGet(scope, "host", <<>>))
         IN  IF match.matched
             THEN LET matched_params == ConvertParams(match.groupdict, node.param_convertors)
                  IN  [match |-> FULL,
                       child_scope |-> [path_params |-> MergedParams(scope, matched_params),
                                        endpoint |-> node.app.id]]
             ELSE NoMatch
    ELSE NoMatch

Host_matches(node, scope) ==
    IF scope["type"] \in {"http", "websocket"}
    THEN LET host == SplitFirst(HeaderGet(scope, "host", <<>>), ":")
             match == RegexMatch(node.host_regex, host)
         IN  IF match.matched
             THEN LET matched_params == ConvertParams(match.groupdict, node.param_convertors)
                  IN  [match |-> FULL,
                       child_scope |-> [path_params |-> MergedParams(scope, matched_params),
                                        endpoint |-> node.app.id]]
             ELSE NoMatch
    ELSE NoMatch

\* route.matches(scope), by the node's class
matches(node, scope) ==
    CASE node.kind = "Route" -> Route_matches(node, scope)
      [] node.kind = "WebSocketRoute" -> WebSocketRoute_matches(node, scope)
      [] node.kind = "Mount" -> Mount_matches(node, scope)
      [] node.kind = "Host" -> Host_matches(node, scope)

(***************************************************************************)
(* __call__.  A call returns the sequence of events it produces, in        *)
(* order: each "await route(scope, receive, send)" of a Router is a        *)
(* "route" event carrying the scope as updated, followed by the events of  *)
(* the node's own __call__.                                                *)
(***************************************************************************)
RECURSIVE Router_call(_, _)

\* "if 'app' in scope: raise HTTPException(...) else: PlainTextResponse(...)"
ErrorEvent(status_code, scope) ==
    IF In("app", scope)
    THEN [ev |-> "raise", status_code |-> status_code]
    ELSE [ev |-> "response", status_code |-> status_code]

\* Route.__call__
Route_call(route, scope) ==
    IF MethodMismatch(route, scope)
    THEN <<ErrorEvent(405, scope)>>
    ELSE <<[ev |-> "endpoint", endpoint |-> route.endpoint.id, scope |-> scope]>>

\* WebSocketRoute.__call__
WebSocketRoute_call(route, scope) ==
    <<[ev |-> "endpoint", endpoint |-> route.endpoint.id, scope |-> scope]>>

\* Mount.__call__, Host.__call__: await self.app(scope, receive, send)
App_call(app, scope) ==
    IF app.kind = "Router" THEN Router_call(app, scope)
    ELSE <<[ev |-> "app", app |-> app.id, scope |-> scope]>>

\* await route(scope, receive, send), by the node's class
Node_call(node, scope) ==
    CASE node.kind = "Route" -> Route_call(node, scope)
      [] node.kind = "WebSocketRoute" -> WebSocketRoute_call(node, scope)
      [] node.kind \in {"Mount", "Host"} -> App_call(node.app, scope)

\* Router.not_found
not_found(router, scope) ==
    IF scope["type"] = "websocket"
    THEN <<[ev |-> "close", router |-> router.id]>>
    ELSE <<[ev |-> "not_found", router |-> router.id, error |-> ErrorEvent(404, scope)]>>

\* lines 618-621: the path with its trailing slash toggled
RedirectPath(path) ==
    IF EndsWith(path, <<"/">>) THEN RStrip(path, "/") ELSE path \o <<"/">>

\* a redirect decided on FULL matches only
RedirectMatches_FullOnly(router, redirect_scope) ==
    \E i \in 1..Len(router.routes) : matches(router.routes[i], redirect_scope).match = FULL

\* lines 627-629: some route matches the redirect scope
RedirectMatches(router, redirect_scope) ==
    \E i \in 1..Len(router.routes) : matches(router.routes[i], redirect_scope).match # NONE

\* a Router that goes on to its default after it has sent a redirect
Router_fallback_RedirectsAndGoesOn(router, scope) ==
    LET redirect_path == RedirectPath(scope["path"])
        redirect_scope == ScopeUpdate(scope, [path |-> redirect_path])
        redirect == IF /\ scope["type"] = "http"
                       /\ router.redirect_slashes
                       /\ redirect_path # <<>>
                       /\ RedirectMatches(router, redirect_scope)
                    THEN <<[ev |-> "redirect", router |-> router.id, scope |-> redirect_scope,
               context |-> scope]>>
                    ELSE <<>>
    IN  redirect \o
        (IF scope["type"] = "lifespan"
         THEN <<[ev |-> "lifespan", router |-> router.id]>>
         ELSE IF router.default.some
         THEN <<[ev |-> "default", router |-> router.id, app |-> router.default.v.id,
                 scope |-> scope]>>
         ELSE not_found(router, scope))

\* a Router that hands every scope it has no route for to its default
Router_fallback_AlwaysDefault(router, scope) ==
    LET redirect_path == RedirectPath(scope["path"])
        redirect_scope == ScopeUpdate(scope, [path |-> redirect_path])
    IN  IF /\ scope["type"] = "http"
           /\ router.redirect_slashes
           /\ redirect_path # <<>>
           /\ RedirectMatches(router, redirect_scope)
        THEN <<[ev |-> "redirect", router |-> router.id, scope |-> redirect_scope,
               context |-> scope]>>
        ELSE IF router.default.some
        THEN <<[ev |-> "default", router |-> router.id, app |-> router.default.v.id,
                scope |-> scope]>>
        ELSE not_found(router, scope)

\* lines 617-638: no route matched, fully or partially; a redirect is
\* RedirectResponse(url=str(URL(scope=redirect_scope))), sent with
\* "await response(scope, receive, send)": scope is the event's context
Router_fallback(router, scope) ==
    LET redirect_path == RedirectPath(scope["path"])
        redirect_scope == ScopeUpdate(scope, [path |-> redirect_path])
    IN  IF /\ scope["type"] = "http"
           /\ router.redirect_slashes
           /\ redirect_path # <<>>
           /\ RedirectMatches(router, redirect_scope)
        THEN <<[ev |-> "redirect", router |-> router.id, scope |-> redirect_scope,
               context |-> scope]>>
        ELSE IF scope["type"] = "lifespan"
        THEN <<[ev |-> "lifespan", router |-> router.id]>>
        ELSE IF router.default.some
        THEN <<[ev |-> "default", router |-> router.id, app |-> router.default.v.id,
                scope |-> scope]>>
        ELSE not_found(router, scope)

\* line 608: a PARTIAL match is kept when it is the first one
KeepsPartial(match, partial) == match = PARTIAL /\ ~partial.some

RouteEvent(router, i, match, scope) ==
    [ev |-> "route", router |-> router.id, idx |-> i, match |-> match, scope |-> scope]

RECURSIVE Router_scan(_, _, _, _)
\* a loop that does not return at a FULL match while a later route also
\* matches fully: the last FULL match would win
Router_scan_LastFull(router, scope, i, partial) ==
    IF i > Len(router.routes)
    THEN IF partial.some
         THEN LET updated == ScopeUpdate(scope, partial.v.partial_scope)
              IN  <<RouteEvent(router, partial.v.idx, PARTIAL, updated)>>
                    \o Node_call(router.routes[partial.v.idx], updated)
         ELSE Router_fallback(router, scope)
    ELSE LET m == matches(router.routes[i], scope)
         IN  IF /\ m.match = FULL
                /\ \A j \in (i + 1)..Len(router.routes) :
                      matches(router.routes[j], scope).match # FULL
             THEN LET updated == ScopeUpdate(scope, m.child_scope)
                  IN  <<RouteEvent(router, i, FULL, updated)>>
                        \o Node_call(router.routes[i], updated)
             ELSE IF KeepsPartial(m.match, partial)
             THEN Router_scan(router, scope, i + 1,
                              Some([idx |-> i, partial_scope |-> m.child_scope]))
             ELSE Router_scan(router, scope, i + 1, partial)

\* a loop that returns at the first match of any kind, PARTIAL included
Router_scan_StopsAtPartial(router, scope, i, partial) ==
    IF i > Len(router.routes)
    THEN Router_fallback(router, scope)
    ELSE LET m == matches(router.routes[i], scope)
         IN  IF m.match # NONE
             THEN LET updated == ScopeUpdate(scope, m.child_scope)
                  IN  <<RouteEvent(router, i, m.match, updated)>>
                        \o Node_call(router.routes[i], updated)
             ELSE Router_scan(router, scope, i + 1, partial)

\* a loop that merges the contribution of a PARTIAL match into the scope
\* when it finds it, before the routes after it are matched
Router_scan_MergesAsItGoes(router, scope, i, partial) ==
    IF i > Len(router.routes)
    THEN IF partial.some
         THEN LET updated == ScopeUpdate(scope, partial.v.partial_scope)
              IN  <<RouteEvent(router, partial.v.idx, PARTIAL, updated)>>
                    \o Node_call(router.routes[partial.v.idx], updated)
         ELSE Router_fallback(router, scope)
    ELSE LET m == matches(router.routes[i], scope)
         IN  IF m.match = FULL
             THEN LET updated == ScopeUpdate(scope, m.child_scope)
                  IN  <<RouteEvent(router, i, FULL, updated)>>
                        \o Node_call(router.routes[i], updated)
             ELSE IF KeepsPartial(m.match, partial)
             THEN Router_scan(router, ScopeUpdate(scope, m.child_scope), i + 1,
                              Some([idx |-> i, partial_scope |-> m.child_scope]))
             ELSE Router_scan(router, scope, i + 1, partial)

\* lines 602-615: the loop from route i on, partial the first PARTIAL match so far
Router_scan(router, scope, i, partial) ==
    IF i > Len(router.routes)
    THEN IF partial.some
         THEN LET updated == ScopeUpdate(scope, partial.v.partial_scope)
              IN  <<RouteEvent(router, partial.v.idx, PARTIAL, updated)>>
                    \o Node_call(router.routes[partial.v.idx], updated)
         ELSE Router_fallback(router, scope)
    ELSE LET m == matches(router.routes[i], scope)
         IN  IF m.match = FULL
             THEN LET updated == ScopeUpdate(scope, m.child_scope)
                  IN  <<RouteEvent(router, i, FULL, updated)>>
                        \o Node_call(router.routes[i], updated)
             ELSE IF KeepsPartial(m.match, partial)
             THEN Router_scan(router, scope, i + 1,
                              Some([idx |-> i, partial_scope |-> m.child_scope]))
             ELSE Router_scan(router, scope, i + 1, partial)

\* a Router that sets the back-reference to itself whatever the scope has
WithRouter_Overwrites(router, scope) == ScopeUpdate(scope, [router |-> router.id])

\* lines 597-598: the back-reference to the router
WithRouter(router, scope) ==
    IF In("router", scope) THEN scope ELSE ScopeUpdate(scope, [router |-> router.id])

\* Router.__call__
Router_call(router, scope) == Router_scan(router, WithRouter(router, scope), 1, None)

(***************************************************************************)
(* url_path_for.  A lookup returns [ok |-> TRUE, url |-> URLPath] or, for  *)
(* a raised NoMatchFound, [ok |-> FALSE].                                  *)
(***************************************************************************)
NoMatchFound == [ok |-> FALSE]

\* URLPath(path=..., protocol=..., host=...); str(url) is url.path
URLPath(path, protocol, host) ==
    [ok |-> TRUE, url |-> [path |-> path, protocol |-> protocol, host |-> host]]

RECURSIVE ReplaceItems(_, _, _, _)
\* the loop of replace_params over list(path_params.items())
ReplaceItems(path, param_convertors, path_params, items) ==
    IF items = <<>> THEN [path |-> path, path_params |-> path_params]
    ELSE LET key == items[1].k
         IN  IF Contains(path, Placeholder(key))
             THEN ReplaceItems(
                     Replace(path, Placeholder(key),
                             to_string(Get(param_convertors, key), items[1].v)),
                     param_convertors, Pop(path_params, key), Tail(items))
             ELSE ReplaceItems(path, param_convertors, path_params, Tail(items))

replace_params(path, param_convertors, path_params) ==
    ReplaceItems(path, param_convertors, path_params, path_params)

\* a reverse that asks only for the expected parameters to be among those
\* given, and ignores the others
Route_url_path_for_IgnoresExtra(route, name, path_params) ==
    LET seen_params == Keys(path_params)
        expected_params == Keys(route.param_convertors)
        replaced == replace_params(route.path_format, route.param_convertors,
                                   SelectSeq(path_params, LAMBDA e : e.k \in expected_params))
    IN  IF name # route.name \/ ~(expected_params \subseteq seen_params)
        THEN NoMatchFound
        ELSE URLPath(replaced.path,
                     IF route.kind = "Route" THEN "http" ELSE "websocket", <<>>)

\* Route.url_path_for and WebSocketRoute.url_path_for, which differ in the protocol
Route_url_path_for(route, name, path_params) ==
    LET seen_params == Keys(path_params)
        expected_params == Keys(route.param_convertors)
        replaced == replace_params(route.path_format, route.param_convertors, path_params)
    IN  IF name # route.name \/ seen_params # expected_params
        THEN NoMatchFound
        ELSE URLPath(replaced.path,
                     IF route.kind = "Route" THEN "http" ELSE "websocket", <<>>)

\* lines 332-338 and 402-408: the name left for the nested routes, if the
\* mount has no name or the name starts with "<mount name>:"
RemainingName(node, name) ==
    IF ~node.name.some THEN Some(name)
    ELSE IF StartsWith(name, node.name.v \o <<":">>)
    THEN Some(Tail_(name, Len(node.name.v) + 2))
    ELSE None

RECURSIVE url_path_for(_, _, _)

RECURSIVE FirstReverse(_, _, _, _)
\* a loop that goes on after a success: the last route that resolves wins
FirstReverse_LastWins(routes, i, name, path_params) ==
    IF i > Len(routes) THEN NoMatchFound
    ELSE LET later == FirstReverse(routes, i + 1, name, path_params)
         IN  IF later.ok THEN later ELSE url_path_for(routes[i], name, path_params)

\* a loop whose candidates share one mapping: what a Mount or a Host whose
\* name fits has substituted into its own template before it failed is
\* gone for the candidates after it
FirstReverse_SharesParams(routes, i, name, path_params) ==
    IF i > Len(routes) THEN NoMatchFound
    ELSE LET url == url_path_for(routes[i], name, path_params)
             left == IF routes[i].kind = "Mount" /\ RemainingName(routes[i], name).some
                     THEN replace_params(routes[i].path_format, routes[i].param_convertors,
                                         path_params).path_params
                     ELSE IF routes[i].kind = "Host" /\ RemainingName(routes[i], name).some
                     THEN replace_params(routes[i].host_format, routes[i].param_convertors,
                                         path_params).path_params
                     ELSE path_params
         IN  IF url.ok THEN url ELSE FirstReverse(routes, i + 1, name, left)

\* "for route in routes: try: return route.url_path_for(...) except NoMatchFound: pass",
\* from route i on; NoMatchFound when the loop ends
FirstReverse(routes, i, name, path_params) ==
    IF i > Len(routes) THEN NoMatchFound
    ELSE LET url == url_path_for(routes[i], name, path_params)
         IN  IF url.ok THEN url ELSE FirstReverse(routes, i + 1, name, path_params)

\* a prefix that keeps the "/" its format ends with
MountedPath_KeepsSlash(path_prefix, url) == path_prefix \o url.path

\* line 350: the mount's resolved prefix followed by the nested url
MountedPath(path_prefix, url) == RStrip(path_prefix, "/") \o url.path

Mount_url_path_for(mount, name, path_params) ==
    IF mount.name.some /\ name = mount.name.v /\ HasKey(path_params, PATH)
    THEN LET stripped == Put(path_params, PATH, LStrip(Get(path_params, PATH), "/"))
             replaced == replace_params(mount.path_format, mount.param_convertors, stripped)
         IN  IF replaced.path_params = EmptyDict
             THEN URLPath(replaced.path, "", <<>>)
             ELSE NoMatchFound
    ELSE LET remaining_name == RemainingName(mount, name)
             replaced == replace_params(mount.path_format, mount.param_convertors,
                                        Put(path_params, PATH, <<>>))
             remaining_params ==
                 IF HasKey(path_params, PATH)
                 THEN Put(replaced.path_params, PATH, Get(path_params, PATH))
                 ELSE replaced.path_params
             routes == IF NodeRoutes(mount).some THEN NodeRoutes(mount).v ELSE <<>>
             url == FirstReverse(routes, 1, remaining_name.v, remaining_params)
         IN  IF remaining_name.some /\ url.ok
             THEN URLPath(MountedPath(replaced.path, url.url), url.url.protocol, <<>>)
             ELSE NoMatchFound

Host_url_path_for(node, name, path_params) ==
    IF node.name.some /\ name = node.name.v /\ HasKey(path_params, PATH)
    THEN LET replaced == replace_params(node.host_format, node.param_convertors,
                                        Pop(path_params, PATH))
         IN  IF replaced.path_params = EmptyDict
             THEN URLPath(Get(path_params, PATH), "", replaced.path)
             ELSE NoMatchFound
    ELSE LET remaining_name == RemainingName(node, name)
             replaced == replace_params(node.host_format, node.param_convertors, path_params)
             routes == IF NodeRoutes(node).some THEN NodeRoutes(node).v ELSE <<>>
             url == FirstReverse(routes, 1, remaining_name.v, replaced.path_params)
         IN  IF remaining_name.some /\ url.ok
             THEN URLPath(url.url.path, url.url.protocol, replaced.path)
             ELSE NoMatchFound

\* route.url_path_for(name, **path_params), by the node's class
url_path_for(node, name, path_params) ==
    CASE node.kind \in {"Route", "WebSocketRoute"} -> Route_url_path_for(node, name, path_params)
      [] node.kind = "Mount" -> Mount_url_path_for(node, name, path_params)
      [] node.kind = "Host" -> Host_url_path_for(node, name, path_params)

\* Router.url_path_for
Router_url_path_for(r, name, path_params) == FirstReverse(r.routes, 1, name, path_params)

(***************************************************************************)
(* The state                                                               *)
(***************************************************************************)
VARIABLES
    router,             \* the Router that receives the requests
    startup_handlers,   \* router.lifespan.startup_handlers
    shutdown_handlers,  \* router.lifespan.shutdown_handlers
    call,               \* the Router.__call__ in progress: its scope and events
    lookup,             \* the url_path_for just made: its arguments and result
    lifespan_pc,        \* where Lifespan.__call__ stands
    lifespan_i,         \* the index of the handler the running loop is at
    received,           \* the messages Lifespan.__call__ has received
    ran,                \* the handlers run so far, as [phase, index, handler, ok]
    sent                \* the messages Lifespan.__call__ has sent

handlerVars == <<startup_handlers, shutdown_handlers>>

lifespanVars == <<lifespan_pc, lifespan_i, received, ran, sent>>

vars == <<router, call, lookup, handlerVars, lifespanVars>>

(***************************************************************************)
(* Bounds and the inputs of the model                                      *)
(***************************************************************************)
MaxRoutes == 2

MaxHandlers == 3

\* the endpoints registered: a function and a class used as an ASGI app
EndpointF == Endpoint("f", <<"i">>, TRUE)

EndpointG == Endpoint("g", <<"i">>, TRUE)

EndpointC == Endpoint("C", <<"c">>, FALSE)

\* "/a", "/{x}"
RoutePaths == {<<"/", "a">>, <<"/", "{", "x", "}">>}

\* the methods add_route is given: none, ["POST"], ["Get", "post"] and []
DeclaredMethods == {None, Some({"POST"}), Some({"Get", "post"}), Some({})}

\* the routes add_route is called with: each path with no methods and with
\* ["POST"], and /a also with ["Get", "post"] and with []
AddedRoutes ==
    {[path |-> path, methods |-> methods] :
        path \in RoutePaths, methods \in {None, Some({"POST"})}}
      \cup {[path |-> <<"/", "a">>, methods |-> methods] : methods \in DeclaredMethods}

\* the router mounted: /a (GET, HEAD), /a (POST) and /b/ (any method, a class)
SubRouter ==
    Router("sub", <<Route(<<"/", "a">>, EndpointF, None, None),
                    Route(<<"/", "a">>, EndpointG, Some({"post"}), Some(<<"p">>)),
                    Route(<<"/", "b", "/">>, EndpointC, None, None)>>, TRUE, None)

\* a router that mounts SubRouter under /m, named "m"
OuterRouter ==
    Router("outer", <<Mount(<<"/", "m">>, SubRouter, Some(<<"m">>))>>, TRUE, None)

\* the mounts registered: "/m" and "/{u}/" on SubRouter and "/{u}/" on
\* OuterRouter, named "m"; "/m" on OuterRouter and on an ASGI app, with no name
Mounts ==
    {[path |-> <<"/", "m">>, app |-> SubRouter, name |-> Some(<<"m">>)],
     [path |-> <<"/", "{", "u", "}", "/">>, app |-> SubRouter, name |-> Some(<<"m">>)],
     [path |-> <<"/", "{", "u", "}", "/">>, app |-> OuterRouter, name |-> Some(<<"m">>)],
     [path |-> <<"/", "m">>, app |-> OuterRouter, name |-> None],
     [path |-> <<"/", "m">>, app |-> App("asgi"), name |-> None]}

\* "{t}.h"
HostTemplates == {<<"{", "t", "}", ".", "h">>}

HttpPaths ==
    {<<"/", "a">>, <<"/", "a", "/">>, <<"/", "b">>, <<"/", "m", "/", "a">>,
     <<"/", "m", "/", "m", "/", "a">>, <<"/", "m">>, <<"/">>,
     <<"/", "m", "/", "a", "\n">>, <<"/", "a", "\n">>}

\* the Host headers sent: "h:8", "x.h" and "x.h:8"
HostHeaders == {<<"h", ":", "8">>, <<"x", ".", "h">>, <<"x", ".", "h", ":", "8">>}

HttpScope(path, method, host, inapp) ==
    LET scope == [type |-> "http", path |-> path, method |-> method,
                  headers |-> <<[k |-> "host", v |-> host]>>, root_path |-> <<>>]
    IN  IF inapp THEN ScopeUpdate(scope, [app |-> "starlette"]) ELSE scope

WebSocketScope(path, host) ==
    [type |-> "websocket", path |-> path,
     headers |-> <<[k |-> "host", v |-> host]>>, root_path |-> <<>>]

LifespanScope == [type |-> "lifespan"]

HttpScopes ==
    {HttpScope(p, m, <<"h", ":", "8">>, FALSE) : p \in HttpPaths, m \in {"GET", "POST"}}
      \cup {HttpScope(<<"/", "a">>, m, <<"x", ".", "h">>, TRUE) : m \in {"GET", "POST", "HEAD"}}
      \cup {HttpScope(<<"/", "b">>, "GET", <<"x", ".", "h">>, TRUE)}
      \cup {HttpScope(<<"/", "a">>, "GET", <<"x", ".", "h", ":", "8">>, FALSE)}

WebSocketScopes ==
    {WebSocketScope(p, <<"h", ":", "8">>) : p \in {<<"/", "a">>, <<"/", "m", "/", "a">>, <<"/", "a", "/">>}}

\* a request that comes with a back-reference, set by an enclosing application
ReferredScopes ==
    {ScopeUpdate(HttpScope(<<"/", "m", "/", "a">>, "GET", <<"h", ":", "8">>, FALSE),
                 [router |-> "app"])}

Scopes == HttpScopes \cup WebSocketScopes \cup ReferredScopes

\* the reverse lookups made: names "i", "m", "m:i", "m:p", "m:m:i" and "x:i",
\* with no parameter, with u = "b", with x = "b" or with path = "/z"
Names ==
    {<<"i">>, <<"m">>, <<"m", ":", "i">>, <<"m", ":", "p">>,
     <<"m", ":", "m", ":", "i">>, <<"x", ":", "i">>}

ParamSets ==
    {EmptyDict, <<[k |-> <<"u">>, v |-> <<"b">>]>>, <<[k |-> <<"x">>, v |-> <<"b">>]>>,
     <<[k |-> PATH, v |-> <<"/", "z">>]>>}

Handlers == {"h1", "h2"}

(***************************************************************************)
(* Init: a Router() with no routes and no event handlers                   *)
(***************************************************************************)
InitLifespan ==
    /\ startup_handlers = <<>>
    /\ shutdown_handlers = <<>>
    /\ lifespan_pc = "idle"
    /\ lifespan_i = 0
    /\ received = <<>>
    /\ ran = <<>>
    /\ sent = <<>>

Init ==
    /\ \E redirect_slashes \in BOOLEAN :
          router = Router("root", <<>>, redirect_slashes, None)
    /\ call = None
    /\ lookup = None
    /\ InitLifespan

\* no call of the router and no reverse lookup is under way
Idle ==
    /\ call = None
    /\ lookup = None

(***************************************************************************)
(* Registration (lines 514-543): each appends one node to router.routes    *)
(***************************************************************************)
Registers(route) ==
    /\ Len(router.routes) < MaxRoutes
    /\ router' = [router EXCEPT !.routes = Append(@, route)]
    /\ UNCHANGED <<call, lookup, handlerVars, lifespanVars>>

add_route ==
    /\ Idle
    /\ \E r \in AddedRoutes : Registers(Route(r.path, EndpointF, r.methods, None))

add_websocket_route ==
    /\ Idle
    /\ \E path \in {<<"/", "a">>} : Registers(WebSocketRoute(path, EndpointF, None))

mount ==
    /\ Idle
    /\ \E m \in Mounts : Registers(Mount(m.path, m.app, m.name))

host ==
    /\ Idle
    /\ \E template \in HostTemplates : Registers(Host(template, SubRouter, None))

(***************************************************************************)
(* Router.__call__ on a scope.  Matching and dispatch down to the          *)
(* endpoint run without suspending, so the call's events are produced in   *)
(* one step; Return is the end of the call.                                *)
(***************************************************************************)
StartsLifespan(events) ==
    \E i \in 1..Len(events) : events[i].ev = "lifespan"

\* a Router that moves the route it dispatched to to the front of its routes
Calls_MovesToFront(scopes) ==
    \E scope \in scopes :
        /\ call' = Some([scope |-> scope, events |-> Router_call(router, scope)])
        /\ StartsLifespan(call'.v.events) => lifespan_pc = "idle"
        /\ lifespan_pc' = IF StartsLifespan(call'.v.events) THEN "receive_startup"
                          ELSE lifespan_pc
        /\ router' = IF call'.v.events[1].ev = "route"
                     THEN [router EXCEPT !.routes =
                             <<@[call'.v.events[1].idx]>>
                               \o SubSeq(@, 1, call'.v.events[1].idx - 1)
                               \o SubSeq(@, call'.v.events[1].idx + 1, Len(@))]
                     ELSE router
        /\ UNCHANGED <<lookup, handlerVars, lifespan_i, received, ran, sent>>

\* a Router that holds requests back until startup is complete
Calls_AfterStartup(scopes) ==
    \E scope \in scopes :
        /\ scope["type"] # "lifespan" =>
              \E i \in 1..Len(sent) : sent[i].type = "lifespan.startup.complete"
        /\ call' = Some([scope |-> scope, events |-> Router_call(router, scope)])
        /\ StartsLifespan(call'.v.events) => lifespan_pc = "idle"
        /\ lifespan_pc' = IF StartsLifespan(call'.v.events) THEN "receive_startup"
                          ELSE lifespan_pc
        /\ UNCHANGED <<router, lookup, handlerVars, lifespan_i, received, ran, sent>>

Calls(scopes) ==
    \E scope \in scopes :
        /\ call' = Some([scope |-> scope, events |-> Router_call(router, scope)])
        /\ StartsLifespan(call'.v.events) => lifespan_pc = "idle"
        /\ lifespan_pc' = IF StartsLifespan(call'.v.events) THEN "receive_startup"
                          ELSE lifespan_pc
        /\ UNCHANGED <<router, lookup, handlerVars, lifespan_i, received, ran, sent>>

Dispatch ==
    /\ Idle
    /\ Calls(Scopes)

Return ==
    /\ call # None
    /\ call' = None
    /\ UNCHANGED <<router, lookup, handlerVars, lifespanVars>>

\* router.url_path_for(name, **path_params), and its result dropped
UrlPathFor ==
    /\ Idle
    /\ \E name \in Names, path_params \in ParamSets :
          lookup' = Some([name |-> name, path_params |-> path_params,
                          result |-> Router_url_path_for(router, name, path_params)])
    /\ UNCHANGED <<router, call, handlerVars, lifespanVars>>

Forget ==
    /\ lookup # None
    /\ lookup' = None
    /\ UNCHANGED <<router, call, handlerVars, lifespanVars>>

Next ==
    \/ add_route
    \/ add_websocket_route
    \/ mount
    \/ host
    \/ Dispatch
    \/ Return
    \/ UrlPathFor
    \/ Forget

Spec == Init /\ [][Next]_vars

(***************************************************************************)
(* Lifespan.  Lifespan.__call__ suspends at each receive, at each handler  *)
(* and at each send; lifespan_pc names the suspension point it is at:      *)
(*   idle              not called yet                                      *)
(*   receive_startup   line 483, awaiting the first message                *)
(*   startup           line 487, about to run startup_handlers[lifespan_i] *)
(*   receive_shutdown  line 494, startup.complete sent                     *)
(*   shutdown          line 496, about to run shutdown_handlers[lifespan_i]*)
(*   done              line 497 passed, shutdown.complete sent             *)
(*   raised            an exception left __call__                          *)
(***************************************************************************)
Messages == {"lifespan.startup", "lifespan.shutdown"}

\* Lifespan.add_event_handler
add_event_handler ==
    /\ Len(startup_handlers) + Len(shutdown_handlers) < MaxHandlers
    /\ \E event_type \in {"startup", "shutdown"}, func \in Handlers :
          IF event_type = "startup"
          THEN /\ startup_handlers' = Append(startup_handlers, func)
               /\ UNCHANGED shutdown_handlers
          ELSE /\ shutdown_handlers' = Append(shutdown_handlers, func)
               /\ UNCHANGED startup_handlers
    /\ UNCHANGED <<router, call, lookup, lifespanVars>>

\* a loop over the startup handlers that leaves the last one out
StartupAt_SkipsLast(i) ==
    IF i < Len(startup_handlers)
    THEN /\ lifespan_pc' = "startup"
         /\ lifespan_i' = i
         /\ UNCHANGED sent
    ELSE /\ lifespan_pc' = "receive_shutdown"
         /\ lifespan_i' = 0
         /\ sent' = Append(sent, [type |-> "lifespan.startup.complete"])

\* The for loop of Lifespan.startup has reached index i: the next handler,
\* or past the last one, lines 493-494
StartupAt(i) ==
    IF i <= Len(startup_handlers)
    THEN /\ lifespan_pc' = "startup"
         /\ lifespan_i' = i
         /\ UNCHANGED sent
    ELSE /\ lifespan_pc' = "receive_shutdown"
         /\ lifespan_i' = 0
         /\ sent' = Append(sent, [type |-> "lifespan.startup.complete"])

\* The for loop of Lifespan.shutdown has reached index i: the next handler,
\* or past the last one, line 497
ShutdownAt(i) ==
    IF i <= Len(shutdown_handlers)
    THEN /\ lifespan_pc' = "shutdown"
         /\ lifespan_i' = i
         /\ UNCHANGED sent
    ELSE /\ lifespan_pc' = "done"
         /\ lifespan_i' = 0
         /\ sent' = Append(sent, [type |-> "lifespan.shutdown.complete"])

\* an exception leaves Lifespan.__call__
Raises ==
    /\ lifespan_pc' = "raised"
    /\ lifespan_i' = 0

\* lines 483-487: the first message arrives
ReceiveStartup ==
    /\ lifespan_pc = "receive_startup"
    /\ \E message \in Messages :
          /\ received' = Append(received, message)
          /\ IF message = "lifespan.startup"
             THEN StartupAt(1)
             ELSE Raises /\ UNCHANGED sent
    /\ UNCHANGED <<router, call, lookup, handlerVars, ran>>

\* a startup that swallows the failure of a handler and goes on
StartupHandler_Swallows ==
    /\ lifespan_pc = "startup"
    /\ \E ok \in BOOLEAN :
          /\ ran' = Append(ran, [phase |-> "startup", index |-> lifespan_i,
                                 handler |-> startup_handlers[lifespan_i], ok |-> ok])
          /\ StartupAt(lifespan_i + 1)
    /\ UNCHANGED <<router, call, lookup, handlerVars, received>>

\* lines 468-473 and 486-491: one startup handler runs, and succeeds or fails
StartupHandler ==
    /\ lifespan_pc = "startup"
    /\ \E ok \in BOOLEAN :
          /\ ran' = Append(ran, [phase |-> "startup", index |-> lifespan_i,
                                 handler |-> startup_handlers[lifespan_i], ok |-> ok])
          /\ IF ok
             THEN StartupAt(lifespan_i + 1)
             ELSE /\ Raises
                  /\ sent' = Append(sent, [type |-> "lifespan.startup.failed",
                                           message |-> startup_handlers[lifespan_i]])
    /\ UNCHANGED <<router, call, lookup, handlerVars, received>>

\* lines 494-496: the message after startup arrives
ReceiveShutdown ==
    /\ lifespan_pc = "receive_shutdown"
    /\ \E message \in Messages :
          /\ received' = Append(received, message)
          /\ IF message = "lifespan.shutdown"
             THEN ShutdownAt(1)
             ELSE Raises /\ UNCHANGED sent
    /\ UNCHANGED <<router, call, lookup, handlerVars, ran>>

\* a shutdown that isolates the failure of a handler and goes on
ShutdownHandler_Isolated ==
    /\ lifespan_pc = "shutdown"
    /\ \E ok \in BOOLEAN :
          /\ ran' = Append(ran, [phase |-> "shutdown", index |-> lifespan_i,
                                 handler |-> shutdown_handlers[lifespan_i], ok |-> ok])
          /\ ShutdownAt(lifespan_i + 1)
    /\ UNCHANGED <<router, call, lookup, handlerVars, received>>

\* lines 475-480 and 496-497: one shutdown handler runs, and succeeds or fails
ShutdownHandler ==
    /\ lifespan_pc = "shutdown"
    /\ \E ok \in BOOLEAN :
          /\ ran' = Append(ran, [phase |-> "shutdown", index |-> lifespan_i,
                                 handler |-> shutdown_handlers[lifespan_i], ok |-> ok])
          /\ IF ok
             THEN ShutdownAt(lifespan_i + 1)
             ELSE Raises /\ UNCHANGED sent
    /\ UNCHANGED <<router, call, lookup, handlerVars, received>>

(***************************************************************************)
(* The lifespan handshake of a Router with one route, /a, and its own or   *)
(* a given default, served while http, websocket and lifespan scopes       *)
(* arrive.                                                                 *)
(***************************************************************************)
\* the default a Router is made with: none, or an ASGI app
Defaults == {None, Some(App("d"))}

LifespanScopes ==
    {LifespanScope,
     HttpScope(<<"/", "a">>, "GET", <<"h", ":", "8">>, FALSE),
     HttpScope(<<"/", "b">>, "GET", <<"h", ":", "8">>, FALSE),
     HttpScope(<<"/", "b">>, "GET", <<"h", ":", "8">>, TRUE),
     HttpScope(<<"/", "a">>, "POST", <<"h", ":", "8">>, FALSE),
     HttpScope(<<"/", "a", "/">>, "GET", <<"h", ":", "8">>, FALSE),
     WebSocketScope(<<"/", "a">>, <<"h", ":", "8">>)}

InitServing ==
    /\ \E default \in Defaults :
          router = Router("root", <<Route(<<"/", "a">>, EndpointF, None, None)>>, TRUE, default)
    /\ call = None
    /\ lookup = None
    /\ InitLifespan

Serve ==
    /\ Idle
    /\ Calls(LifespanScopes)

NextLifespan ==
    \/ add_event_handler
    \/ Serve
    \/ Return
    \/ ReceiveStartup
    \/ StartupHandler
    \/ ReceiveShutdown
    \/ ShutdownHandler

SpecLifespan == InitServing /\ [][NextLifespan]_vars

(***************************************************************************)
(* Properties of Router.__call__.  Every Router that is called, the root   *)
(* or one nested under a Mount or a Host, produces exactly one event of    *)
(* its own; what it was called with is the scope of the event before it.   *)
(***************************************************************************)
RouterEvents == {"route", "redirect", "default", "not_found", "close", "lifespan"}

RouterOf(id) ==
    CASE id = "root" -> router
      [] id = "sub" -> SubRouter
      [] id = "outer" -> OuterRouter

Events == call.v.events

\* the positions of the trace at which a Router acts
RouterSteps == {k \in 1..Len(Events) : Events[k].ev \in RouterEvents}

\* the scope the Router acting at k works on, back-reference included
ScopeAt(k) ==
    WithRouter(RouterOf(Events[k].router),
               IF k = 1 THEN call.v.scope ELSE Events[k - 1].scope)

\* the routes of the Router acting at k that report match for its scope
Reporting(k, match) ==
    LET r == RouterOf(Events[k].router)
    IN  {i \in 1..Len(r.routes) : matches(r.routes[i], ScopeAt(k)).match = match}

\* the Router acting at k merges the contribution of route i, which
\* reported match, invokes it, and does nothing else
DispatchesTo(k, i, match) ==
    LET r == RouterOf(Events[k].router)
        updated == ScopeUpdate(ScopeAt(k), matches(r.routes[i], ScopeAt(k)).child_scope)
    IN  /\ Events[k] = RouteEvent(r, i, match, updated)
        /\ SubSeq(Events, k + 1, Len(Events)) = Node_call(r.routes[i], updated)
        /\ \A j \in RouterSteps \ {k} : Events[j].router # r.id

\* C1, in a call: a Router with a route reporting FULL dispatches to the
\* first such route in registration order, and to nothing else
C1_DispatchesFirstFull ==
    call.some =>
        \A k \in RouterSteps :
            Reporting(k, FULL) # {} => DispatchesTo(k, Min(Reporting(k, FULL)), FULL)

\* C1, in a registration: the routes change only by one node appended
C1_Appends ==
    router'.routes # router.routes =>
        /\ Len(router'.routes) = Len(router.routes) + 1
        /\ SubSeq(router'.routes, 1, Len(router.routes)) = router.routes

\* C1: a Router dispatches to exactly the first node, in registration
\* order, that reports FULL, with its contribution merged, and to no other
\* node, redirect or default handler; registration appends, so the order of
\* registration is the order of precedence
C1_FirstFullWins == [](C1_DispatchesFirstFull) /\ [][C1_Appends]_vars

\* a call in which two routes of the root router report FULL and the first
\* registered is the one dispatched
C1_Witness ==
    /\ call.some
    /\ Cardinality(Reporting(1, FULL)) >= 2
    /\ Events[1].idx = Min(Reporting(1, FULL))
    /\ Events[2].ev = "endpoint"

\* the method of the request is not among the methods a Route allows
NotAllowed(route, scope) ==
    route.methods.some /\ scope["method"] \notin route.methods.v

\* the path of the scope at k matches the pattern of some Route of the
\* Router acting at k, and that Route does not allow the method
MethodNotAllowedAt(k) ==
    LET r == RouterOf(Events[k].router)
    IN  \E i \in 1..Len(r.routes) :
            /\ r.routes[i].kind = "Route"
            /\ RegexMatch(r.routes[i].path_regex, ScopeAt(k)["path"]).matched
            /\ NotAllowed(r.routes[i], ScopeAt(k))

\* C2: an http request whose path matches a Route that does not allow its
\* method, with no node reporting FULL, ends in method-not-allowed: a 405
\* response, or a raised 405 when "app" is in the scope; the Router's
\* not-found handler is not invoked
C2_MethodNotAllowed ==
    call.some =>
        \A k \in RouterSteps :
            (/\ ScopeAt(k)["type"] = "http"
             /\ MethodNotAllowedAt(k)
             /\ Reporting(k, FULL) = {})
            => /\ Events[k].ev = "route"
               /\ Len(Events) = k + 1
               /\ Events[k + 1] = [ev |-> IF In("app", ScopeAt(k)) THEN "raise"
                                          ELSE "response",
                                   status_code |-> 405]

\* a GET inside an application for a path whose only Route allows POST:
\* the 405 is raised
C2_Witness ==
    /\ call.some
    /\ ScopeAt(1)["type"] = "http"
    /\ MethodNotAllowedAt(1)
    /\ Reporting(1, FULL) = {}
    /\ Events[2] = [ev |-> "raise", status_code |-> 405]

\* C3: a PARTIAL match does not stop the scan: a route reporting FULL
\* after a PARTIAL one is the one dispatched; with no FULL match the first
\* route reporting PARTIAL is dispatched, with its own contribution merged
C3_PartialIsFallback ==
    call.some =>
        \A k \in RouterSteps :
            LET full == Reporting(k, FULL)
                partial == Reporting(k, PARTIAL)
            IN  /\ (full # {} /\ partial # {} /\ Min(partial) < Min(full))
                       => DispatchesTo(k, Min(full), FULL)
                /\ (full = {} /\ partial # {})
                       => DispatchesTo(k, Min(partial), PARTIAL)

\* the first route of the root router reports PARTIAL, the second FULL, and
\* the second is dispatched
C3_Witness ==
    /\ call.some
    /\ Reporting(1, PARTIAL) = {1}
    /\ Reporting(1, FULL) = {2}
    /\ Events[1].idx = 2
    /\ Events[1].match = FULL

\* the scope at k with the trailing slash of its path toggled
Toggled(k) == RedirectPath(ScopeAt(k)["path"])

\* some route of the Router acting at k matches the toggled path
ToggledMatches(k) ==
    LET r == RouterOf(Events[k].router)
        toggled == ScopeUpdate(ScopeAt(k), [path |-> Toggled(k)])
    IN  \E i \in 1..Len(r.routes) : matches(r.routes[i], toggled).match \in {PARTIAL, FULL}

\* no route of the Router acting at k matches its scope
Unmatched(k) == Reporting(k, FULL) = {} /\ Reporting(k, PARTIAL) = {}

\* C4: a Router with redirect_slashes, for an http request that none of its
\* routes matches, redirects to the path with its trailing slash toggled
\* exactly when some route matches that path, fully or partially, and the
\* toggled path is not empty (the request was not for "/"); otherwise its
\* default handler is invoked.  There is no redirect when a route matched,
\* when redirect_slashes is off, or for a scope that is not http
C4_RedirectSlashes ==
    call.some =>
        \A k \in RouterSteps :
            LET r == RouterOf(Events[k].router)
                redirects == Events[k].ev = "redirect"
            IN  /\ redirects =>
                       /\ ScopeAt(k)["type"] = "http"
                       /\ r.redirect_slashes
                       /\ Unmatched(k)
                       /\ ScopeAt(k)["path"] # <<"/">>
                       /\ Events[k].scope["path"] = Toggled(k)
                       /\ Len(Events) = k
                /\ (ScopeAt(k)["type"] = "http" /\ r.redirect_slashes /\ Unmatched(k))
                       => /\ redirects <=> (Toggled(k) # <<>> /\ ToggledMatches(k))
                          /\ ~redirects => Events[k].ev \in {"default", "not_found"}

\* GET /a/ on a root router whose route /a matches the toggled path: the
\* request is redirected to /a
C4_Witness ==
    /\ call.some
    /\ Events[1].ev = "redirect"
    /\ call.v.scope["path"] = <<"/", "a", "/">>
    /\ Events[1].scope["path"] = <<"/", "a">>
(***************************************************************************)
(* Properties of Lifespan.__call__                                         *)
(***************************************************************************)
StartupRan == SelectSeq(ran, LAMBDA e : e.phase = "startup")

ShutdownRan == SelectSeq(ran, LAMBDA e : e.phase = "shutdown")

\* the handlers of the entries of a part of ran, in order
HandlersOf(entries) == [i \in 1..Len(entries) |-> entries[i].handler]

\* a message of this type has been sent
Sent(type) == \E i \in 1..Len(sent) : sent[i].type = type

\* this step sends a message of this type
Sends(type) ==
    /\ Len(sent') = Len(sent) + 1
    /\ sent'[Len(sent')].type = type

\* C5, in a state: no handler runs and nothing is sent unless the first
\* message was lifespan.startup; the startup handlers run one by one in
\* the order of registration, each once; startup.complete is sent once, all
\* the handlers run having succeeded, and never with startup.failed
C5_StartupInOrder ==
    /\ (ran # <<>> \/ sent # <<>>) =>
           (received # <<>> /\ received[1] = "lifespan.startup")
    /\ Len(StartupRan) <= Len(startup_handlers)
    /\ \A i \in 1..Len(StartupRan) :
           /\ StartupRan[i].index = i
           /\ StartupRan[i].handler = startup_handlers[i]
    /\ Sent("lifespan.startup.complete") =>
           /\ \A i \in 1..Len(StartupRan) : StartupRan[i].ok
           /\ sent[1].type = "lifespan.startup.complete"
           /\ ~Sent("lifespan.startup.failed")

\* C5, in a step: when startup.complete is sent every registered startup
\* handler has run
C5_CompleteAfterAll ==
    Sends("lifespan.startup.complete") =>
        HandlersOf(StartupRan') = startup_handlers'

\* C5: Lifespan starts only on lifespan.startup as its first message, runs
\* every registered startup handler once, in registration order, and sends
\* startup.complete only after all of them have succeeded
C5_Startup == [](C5_StartupInOrder) /\ [][C5_CompleteAfterAll]_vars

\* two startup handlers have run, the second registered last, and
\* startup.complete has been sent
C5_Witness ==
    /\ Len(startup_handlers) = 2
    /\ startup_handlers[1] # startup_handlers[2]
    /\ HandlersOf(StartupRan) = startup_handlers
    /\ sent = <<[type |-> "lifespan.startup.complete"]>>

\* C6, in a state: once a startup handler has failed, it is the last
\* handler run, startup.failed with the failure is the only message sent,
\* the exception has left __call__ and no second message was awaited
C6_FailureStops ==
    \A j \in 1..Len(ran) :
        (ran[j].phase = "startup" /\ ~ran[j].ok) =>
            /\ j = Len(ran)
            /\ lifespan_pc = "raised"
            /\ sent = <<[type |-> "lifespan.startup.failed", message |-> ran[j].handler]>>
            /\ received = <<"lifespan.startup">>

\* C6, in a step: the record of the handlers run is only added to, and
\* after the exception nothing more is received, run or sent
C6_Absorbing ==
    /\ Len(ran') >= Len(ran)
    /\ SubSeq(ran', 1, Len(ran)) = ran
    /\ lifespan_pc = "raised" =>
           (lifespan_pc' = "raised" /\ UNCHANGED <<received, ran, sent>>)

\* C6: the failure of a startup handler sends startup.failed with the
\* failure, runs no later startup handler, is raised to the caller, and
\* from then on nothing is sent, awaited or run; the handlers already run
\* stay run
C6_StartupFailure == [](C6_FailureStops) /\ [][C6_Absorbing]_vars

\* of three startup handlers the first has succeeded and the second has
\* failed: the third is not run
C6_Witness ==
    /\ Len(startup_handlers) = 3
    /\ Len(ran) = 2
    /\ ran[1].ok
    /\ ~ran[2].ok
    /\ lifespan_pc = "raised"
    /\ Sent("lifespan.startup.failed")

\* the scopes of LifespanScopes that are requests
RequestScopes == {scope \in LifespanScopes : scope["type"] \in {"http", "websocket"}}

\* C7 as claimed: no http or websocket request is dispatched before
\* startup.complete has been sent
C7_NoRequestBeforeStartupComplete ==
    (call.some /\ call.v.scope["type"] \in {"http", "websocket"}) =>
        Sent("lifespan.startup.complete")

\* C7, amended: startup.complete is sent after every startup handler run
\* has succeeded and before any shutdown handler; the Router does not hold
\* requests back until then: whenever it is idle it takes an http or
\* websocket request, whatever Lifespan has done, and dispatches it to a
\* route, redirects it or hands it to its default handler
C7_RouterDoesNotWaitForStartup ==
    /\ Sent("lifespan.startup.complete") =>
           (\A i \in 1..Len(StartupRan) : StartupRan[i].ok)
    /\ ShutdownRan # <<>> => Sent("lifespan.startup.complete")
    /\ Idle => ENABLED (Idle /\ Calls(RequestScopes))
    /\ (call.some /\ call.v.scope["type"] \in {"http", "websocket"}) =>
           Events[1].ev \in {"route", "redirect", "default", "not_found", "close"}

\* a GET /a dispatched to its endpoint while the first startup handler has
\* yet to run
C7_Witness ==
    /\ call.some
    /\ call.v.scope["type"] = "http"
    /\ lifespan_pc = "startup"
    /\ ran = <<>>
    /\ Len(Events) = 2
    /\ Events[2].ev = "endpoint"

\* C8, in a state: the shutdown handlers run only after startup.complete
\* was sent and lifespan.shutdown received, one by one in the order of
\* registration; shutdown.complete is sent only when all of them have
\* succeeded; after the failure of one no other runs, the exception leaves
\* __call__ and shutdown.complete is not sent
C8_ShutdownInOrder ==
    /\ (ShutdownRan # <<>> \/ lifespan_pc = "shutdown" \/ Sent("lifespan.shutdown.complete")) =>
           /\ received = <<"lifespan.startup", "lifespan.shutdown">>
           /\ sent[1].type = "lifespan.startup.complete"
    /\ lifespan_pc = "receive_shutdown" => ShutdownRan = <<>>
    /\ Len(ShutdownRan) <= Len(shutdown_handlers)
    /\ \A i \in 1..Len(ShutdownRan) :
           /\ ShutdownRan[i].index = i
           /\ ShutdownRan[i].handler = shutdown_handlers[i]
    /\ Sent("lifespan.shutdown.complete") =>
           \A i \in 1..Len(ShutdownRan) : ShutdownRan[i].ok
    /\ \A j \in 1..Len(ran) :
           (ran[j].phase = "shutdown" /\ ~ran[j].ok) =>
               /\ j = Len(ran)
               /\ lifespan_pc = "raised"
               /\ ~Sent("lifespan.shutdown.complete")

\* C8, in a step: when shutdown.complete is sent every registered shutdown
\* handler has run; after an exception nothing is sent
C8_CompleteAfterAll ==
    /\ Sends("lifespan.shutdown.complete") =>
           HandlersOf(ShutdownRan') = shutdown_handlers'
    /\ lifespan_pc = "raised" => sent' = sent

\* C8: after startup.complete Lifespan waits for lifespan.shutdown, then
\* runs the shutdown handlers in registration order and sends
\* shutdown.complete after the last; the failure of a shutdown handler
\* propagates, the handlers after it are not run and shutdown.complete is
\* never sent
C8_Shutdown == [](C8_ShutdownInOrder) /\ [][C8_CompleteAfterAll]_vars

\* of two shutdown handlers the first has failed: the second is not run
\* and only startup.complete was sent
C8_Witness ==
    /\ Len(shutdown_handlers) = 2
    /\ Len(ShutdownRan) = 1
    /\ ~ShutdownRan[1].ok
    /\ lifespan_pc = "raised"
    /\ sent = <<[type |-> "lifespan.startup.complete"]>>
(***************************************************************************)
(* Properties of Mount                                                     *)
(***************************************************************************)
\* the positions of the trace at which a Router dispatches to a route
RouteSteps == {k \in RouterSteps : Events[k].ev = "route"}

\* the route dispatched to at k
NodeAt(k) == RouterOf(Events[k].router).routes[Events[k].idx]

MountSteps == {k \in RouteSteps : NodeAt(k).kind = "Mount"}

\* C9: when a Mount matches, the path it hands on is "/" followed by the
\* rest it captured, the root path is the previous one followed by the
\* part of the path consumed, which is an instance of the mount's prefix,
\* and so root_path + path stays what the request came with at every depth
C9_MountResidualPath ==
    call.some =>
        \A k \in RouteSteps :
            LET before == ScopeAt(k)
                after == Events[k].scope
                consumed == SubSeq(before["path"], 1,
                                   Len(before["path"]) - Len(after["path"]))
                captured == Get(RegexMatch(NodeAt(k).path_regex, before["path"]).groupdict,
                                PATH)
            IN  /\ NodeAt(k).kind = "Mount" =>
                       /\ after["path"] = <<"/">> \o captured
                       /\ before["path"] = consumed \o after["path"]
                       /\ after["root_path"] = before["root_path"] \o consumed
                       /\ RegexMatch(compile_path(NodeAt(k).path).path_regex,
                                     consumed).matched
                /\ after["root_path"] \o after["path"]
                       = call.v.scope["root_path"] \o call.v.scope["path"]

\* GET /m/m/a through two mounts at /m, one inside the other: the endpoint
\* is called with root_path /m/m and path /a
C9_Witness ==
    /\ call.some
    /\ Cardinality(MountSteps) = 2
    /\ Events[Len(Events)].ev = "endpoint"
    /\ Events[Len(Events)].scope["root_path"] = <<"/", "m", "/", "m">>
    /\ Events[Len(Events)].scope["path"] = <<"/", "a">>

\* the lookup is not for the mount itself ("<mount name>" with a path)
Delegated(node, name, path_params) ==
    ~(node.name.some /\ name = node.name.v /\ HasKey(path_params, PATH))

\* the name is "<mount name>:<child>", or the mount has no name
Qualified(node, name) ==
    node.name.some => StartsWith(name, node.name.v \o <<":">>)

\* the name with the qualifier of the mount taken off
ResidualName(node, name) ==
    IF node.name.some THEN SubSeq(name, Len(node.name.v) + 2, Len(name)) ELSE name

\* the parameters that are placeholders of the mount's prefix
PrefixKeys(node, path_params) ==
    {key \in Keys(path_params) : Contains(node.path, Placeholder(key))}

RECURSIVE Substituted(_, _, _)
\* the prefix with the parameters of these keys put in
Substituted(path, path_params, keys) ==
    IF keys = {} THEN path
    ELSE LET key == CHOOSE key \in keys : TRUE
         IN  Substituted(Replace(path, Placeholder(key), Get(path_params, key)),
                         path_params, keys \ {key})

\* the parameters left for the nested routes
Leftover(node, path_params) ==
    SelectSeq(path_params, LAMBDA e : e.k \notin PrefixKeys(node, path_params))

RECURSIVE Reverse(_, _, _)
\* what a delegated lookup through a mount is to give: the resolved prefix
\* followed by the url of the first nested route that resolves the
\* residual name with the parameters left over; the lookup of any other
\* node as it is
Reverse(node, name, path_params) ==
    IF node.kind = "Mount" /\ Delegated(node, name, path_params)
    THEN LET routes == IF node.app.kind = "Router" THEN node.app.routes ELSE <<>>
             nested == [j \in 1..Len(routes) |->
                          Reverse(routes[j], ResidualName(node, name),
                                  Leftover(node, path_params))]
             resolved == {j \in 1..Len(routes) : nested[j].ok}
         IN  IF Qualified(node, name) /\ resolved # {}
             THEN [ok |-> TRUE,
                   url |-> [path |-> Substituted(node.path, path_params,
                                                 PrefixKeys(node, path_params))
                                       \o nested[Min(resolved)].url.path,
                            protocol |-> nested[Min(resolved)].url.protocol,
                            host |-> <<>>]]
             ELSE [ok |-> FALSE]
    ELSE url_path_for(node, name, path_params)

\* C10: a reverse lookup delegated to a Mount named M, for "M:<child>" (or
\* any name when the mount has no name), gives the mount's prefix, the
\* parameters known put in, followed by the url of the first nested route,
\* in registration order, that resolves the residual name with the
\* parameters left over; it raises NoMatchFound when no nested route does
\* or the name has another qualifier
C10_MountReverse ==
    lookup.some =>
        LET results == [i \in 1..Len(router.routes) |->
                          Reverse(router.routes[i], lookup.v.name, lookup.v.path_params)]
            resolved == {i \in 1..Len(router.routes) : results[i].ok}
        IN  lookup.v.result = IF resolved = {} THEN [ok |-> FALSE]
                              ELSE results[Min(resolved)]

\* "m:i" looked up on a router whose first route is a mount named "m" at
\* /m over a router with a route "i" at /a: the url is /m/a
C10_Witness ==
    /\ lookup.some
    /\ lookup.v.name = <<"m", ":", "i">>
    /\ Len(router.routes) >= 1
    /\ router.routes[1].kind = "Mount"
    /\ router.routes[1].path = <<"/", "m">>
    /\ router.routes[1].name = Some(<<"m">>)
    /\ lookup.v.result.ok
    /\ lookup.v.result.url.path = <<"/", "m", "/", "a">>
    /\ lookup.v.result.url.protocol = "http"

(***************************************************************************)
(* Properties of url_path_for                                              *)
(***************************************************************************)
\* the leaf routes a lookup can reach: those of the router and of SubRouter
LeafRoutes ==
    {r \in {router.routes[i] : i \in 1..Len(router.routes)}
              \cup {SubRouter.routes[i] : i \in 1..Len(SubRouter.routes)} :
        r.kind \in {"Route", "WebSocketRoute"}}

\* the placeholder names of a template, read off the template
TemplateNames(path) ==
    {ParamAt(path, i).name : i \in {j \in 1..Len(path) : ParamAt(path, j).ok}}

RECURSIVE Fill(_, _, _)
\* the template from index i on with every placeholder replaced by the
\* value of its parameter, in one pass from left to right
Fill(path, path_params, i) ==
    IF i > Len(path) THEN <<>>
    ELSE IF ParamAt(path, i).ok
    THEN Get(path_params, ParamAt(path, i).name)
           \o Fill(path, path_params, ParamAt(path, i).end + 1)
    ELSE <<path[i]>> \o Fill(path, path_params, i + 1)

\* C11: the reverse of a Route or WebSocketRoute succeeds exactly when the
\* name is the route's name and the names of the parameters given are the
\* placeholder names of its template, no more and no fewer; it then gives
\* the template with every placeholder substituted, no parameter left over
C11_RouteReverse ==
    lookup.some =>
        \A route \in LeafRoutes :
            LET name == lookup.v.name
                path_params == lookup.v.path_params
                url == url_path_for(route, name, path_params)
            IN  /\ url.ok <=> /\ name = route.name
                              /\ Keys(path_params) = TemplateNames(route.path)
                /\ url.ok =>
                      /\ url.url.path = Fill(route.path, path_params, 1)
                      /\ replace_params(route.path_format, route.param_convertors,
                                        path_params).path_params = EmptyDict

\* "i" looked up with x = "b" on a router with the routes /a and /{x}, both
\* named "i": /a does not resolve it, /{x} does, as /b
C11_Witness ==
    /\ lookup.some
    /\ lookup.v.name = <<"i">>
    /\ lookup.v.path_params = <<[k |-> <<"x">>, v |-> <<"b">>]>>
    /\ Len(router.routes) = 2
    /\ router.routes[1].kind = "Route" /\ router.routes[1].path = <<"/", "a">>
    /\ router.routes[2].kind = "Route" /\ router.routes[2].path = <<"/", "{", "x", "}">>
    /\ ~url_path_for(router.routes[1], lookup.v.name, lookup.v.path_params).ok
    /\ lookup.v.result = URLPath(<<"/", "b">>, "http", <<>>)

\* the results of the reverse of each route of the router, in order
NodeResults ==
    [i \in 1..Len(router.routes) |->
        url_path_for(router.routes[i], lookup.v.name, lookup.v.path_params)]

\* C12: Router.url_path_for returns what the first route, in registration
\* order, whose reverse succeeds returns; the NoMatchFound of a route only
\* moves on to the next one, and the caller gets NoMatchFound exactly when
\* the reverse of every route failed
C12_FirstReverseWins ==
    lookup.some =>
        LET resolved == {i \in 1..Len(router.routes) : NodeResults[i].ok}
        IN  /\ lookup.v.result.ok <=> resolved # {}
            /\ resolved # {} => lookup.v.result = NodeResults[Min(resolved)]

\* "m:i" looked up on a router with two mounts, both resolving it, to
\* /m/m/a and to /m/a: the url is that of the first one
C12_Witness ==
    /\ lookup.some
    /\ Len(router.routes) = 2
    /\ NodeResults[1].ok /\ NodeResults[2].ok
    /\ NodeResults[1].url.path = <<"/", "m", "/", "m", "/", "a">>
    /\ NodeResults[2].url.path = <<"/", "m", "/", "a">>
    /\ lookup.v.result = NodeResults[1]

(***************************************************************************)
(* Match followed by reverse                                               *)
(***************************************************************************)
\* two paths that differ at most in a trailing "/"
SameModuloSlash(p, q) == RStrip(p, "/") = RStrip(q, "/")

\* the routes of the router that are a Route or a WebSocketRoute
RouterLeaves ==
    {i \in 1..Len(router.routes) : router.routes[i].kind \in {"Route", "WebSocketRoute"}}

\* what the reverse of route i gives for its own name and the parameters
\* its match extracted from the request of the call
ReverseOfMatch(i) ==
    url_path_for(router.routes[i], router.routes[i].name,
                 matches(router.routes[i], call.v.scope).child_scope.path_params)

\* C13: for every Route and WebSocketRoute of the router that matches the
\* path of a request, the reverse with the route's own name and exactly
\* the parameters the match extracted gives the path of the request again,
\* up to a trailing slash
C13_MatchThenReverse ==
    call.some =>
        \A i \in RouterLeaves :
            matches(router.routes[i], call.v.scope).match # NONE =>
                /\ ReverseOfMatch(i).ok
                /\ SameModuloSlash(ReverseOfMatch(i).url.path, call.v.scope["path"])

(***************************************************************************)
(* Properties of Host                                                      *)
(***************************************************************************)
\* the hostname of the request: its Host header up to the first ":"
HostName(scope) ==
    LET header == scope["headers"][1].v
        colons == {i \in 1..Len(header) : header[i] = ":"}
    IN  SubSeq(header, 1, Min(colons \cup {Len(header) + 1}) - 1)

\* the hostname is an instance of the template
HostNameMatches(node, scope) == RegexMatch(node.host_regex, HostName(scope)).matched

\* the routes of the Router acting at k that are a Host
HostsAt(k) ==
    LET r == RouterOf(Events[k].router)
    IN  {i \in 1..Len(r.routes) : r.routes[i].kind = "Host"}

HostSteps == {k \in RouteSteps : NodeAt(k).kind = "Host"}

\* C14: a Host reports FULL when the hostname of the Host header, the port
\* left out, is an instance of its template, and NONE with no contribution
\* otherwise; a Host dispatched to has contributed the parameters of the
\* hostname, merged into those of the scope, and the endpoint, and has left
\* the path, the root path and every other key as they were
C14_HostGates ==
    call.some =>
        /\ \A k \in RouterSteps : \A i \in HostsAt(k) :
              matches(RouterOf(Events[k].router).routes[i], ScopeAt(k))
                = IF HostNameMatches(RouterOf(Events[k].router).routes[i], ScopeAt(k))
                  THEN [match |-> FULL,
                        child_scope |->
                          matches(RouterOf(Events[k].router).routes[i], ScopeAt(k)).child_scope]
                  ELSE [match |-> NONE, child_scope |-> EmptyScope]
        /\ \A k \in HostSteps :
              LET before == ScopeAt(k)
                  after == Events[k].scope
                  given == ScopeGet(before, "path_params", EmptyDict)
              IN  /\ HostNameMatches(NodeAt(k), before)
                  /\ Events[k].match = FULL
                  /\ DOMAIN after = DOMAIN before \cup {"path_params", "endpoint"}
                  /\ \A key \in DOMAIN before \ {"path_params", "endpoint"} :
                        after[key] = before[key]
                  /\ after["endpoint"] = NodeAt(k).app.id
                  /\ Keys(after["path_params"])
                        = Keys(given) \cup TemplateNames(NodeAt(k).host)
                  /\ \A key \in Keys(given) \ TemplateNames(NodeAt(k).host) :
                        Get(after["path_params"], key) = Get(given, key)
                  /\ Fill(NodeAt(k).host, after["path_params"], 1) = HostName(before)

\* GET /a with the header "x.h:8" on a router whose first route is the Host
\* "{t}.h": it is dispatched to with t = "x" and the path still /a
C14_Witness ==
    /\ call.some
    /\ call.v.scope["headers"][1].v = <<"x", ".", "h", ":", "8">>
    /\ 1 \in HostSteps
    /\ Events[1].idx = 1
    /\ Events[1].scope["path_params"] = <<[k |-> <<"t">>, v |-> <<"x">>]>>
    /\ Events[1].scope["path"] = <<"/", "a">>
    /\ Events[1].scope["root_path"] = <<>>

(***************************************************************************)
(* Properties of Route                                                     *)
(***************************************************************************)
\* the spellings in which a method can be declared
Spellings(method) ==
    CASE method = "GET" -> {"GET", "get", "Get"}
      [] method = "POST" -> {"POST", "post"}
      [] method = "HEAD" -> {"HEAD", "head"}

\* the method of a request is allowed by a declaration: it is declared in
\* some letter case, or it is HEAD and GET is; a function endpoint declared
\* with no methods is one declared with GET
AllowedBy(methods, method) ==
    LET declared == IF methods.some THEN methods.v ELSE {"GET"}
    IN  \/ declared \cap Spellings(method) # {}
        \/ method = "HEAD" /\ declared \cap Spellings("GET") # {}

\* C15: a Route of a function endpoint, declared with some methods or with
\* no methods argument, whose pattern matches the path of an http request
\* reports FULL exactly when the method of the request is among those
\* declared, in whatever letter case, or is HEAD with GET declared;
\* declared with no methods argument it allows exactly GET and HEAD
C15_MethodsUpperAndHead ==
    (call.some /\ call.v.scope["type"] = "http") =>
        \A path \in RoutePaths, methods \in DeclaredMethods \ {Some({})} :
            LET route == Route(path, EndpointF, methods, None)
                m == matches(route, call.v.scope)
            IN  /\ m.match # NONE =>
                      (m.match = FULL <=> AllowedBy(methods, call.v.scope["method"]))
                /\ ~methods.some => route.methods = Some({"GET", "HEAD"})

\* a HEAD request for /a dispatched, as a FULL match, to a route that was
\* declared with ["Get", "post"]
C15_Witness ==
    /\ call.some
    /\ call.v.scope["type"] = "http"
    /\ call.v.scope["method"] = "HEAD"
    /\ Events[1].ev = "route"
    /\ Events[1].match = FULL
    /\ router.routes[Events[1].idx] = Route(<<"/", "a">>, EndpointF, Some({"Get", "post"}), None)
    /\ router.routes[Events[1].idx].methods = Some({"GET", "HEAD", "POST"})
    /\ Events[2].ev = "endpoint"

\* the routes of the router that are a Route
RouterRoutes == {i \in 1..Len(router.routes) : router.routes[i].kind = "Route"}

\* C16: a Route reports, for an http request whose path matches its
\* pattern, PARTIAL when a set of allowed methods is declared, of any size,
\* the empty set included, and the method of the request is not in it, and
\* FULL otherwise; it reports NONE, with an empty contribution, when the
\* path does not match or the request is not http
C16_RouteMatchLevel ==
    call.some =>
        \A i \in RouterRoutes :
            LET route == router.routes[i]
                scope == call.v.scope
                m == matches(route, scope)
            IN  IF scope["type"] = "http" /\ RegexMatch(route.path_regex, scope["path"]).matched
                THEN m.match = IF route.methods.some /\ scope["method"] \notin route.methods.v
                               THEN PARTIAL ELSE FULL
                ELSE m = [match |-> NONE, child_scope |-> EmptyScope]

\* some part of the path, followed by "/", is an instance of the mount's prefix
PrefixMatches(node, path) ==
    \E n \in 0..(Len(path) - 1) :
        /\ path[n + 1] = "/"
        /\ RegexMatch(compile_path(node.path).path_regex, SubSeq(path, 1, n)).matched

\* the routes of the Router acting at k that are a Mount whose prefix the
\* path of the request matches
MountsMatchingAt(k) ==
    LET r == RouterOf(Events[k].router)
    IN  {i \in 1..Len(r.routes) :
            /\ r.routes[i].kind = "Mount"
            /\ ScopeAt(k)["type"] \in {"http", "websocket"}
            /\ PrefixMatches(r.routes[i], ScopeAt(k)["path"])}

\* C17: a Mount reports FULL for every http or websocket request whose path
\* matches its prefix, whatever the method and whether or not a nested
\* route matches the rest; so the Router dispatches to that Mount or to a
\* route registered before it, never to a later one nor to its own
\* fallback, and when the Mount is over a Router the rest of the call is
\* that Router's: with no nested match, its redirect or its default
C17_MountAlwaysFull ==
    call.some =>
        /\ \A k \in RouterSteps : \A i \in MountsMatchingAt(k) :
              /\ matches(RouterOf(Events[k].router).routes[i], ScopeAt(k)).match = FULL
              /\ Events[k].ev = "route"
              /\ Events[k].idx <= i
        /\ \A k \in MountSteps :
              NodeAt(k).app.kind = "Router" =>
                  /\ k + 1 \in RouterSteps
                  /\ Events[k + 1].router = NodeAt(k).app.id
                  /\ \A j \in RouterSteps : j > k => Events[j].router # Events[k].router
                  /\ (Reporting(k + 1, FULL) = {} /\ Reporting(k + 1, PARTIAL) = {}) =>
                        /\ Len(Events) = k + 1
                        /\ Events[k + 1].ev \in {"redirect", "default", "not_found", "close"}

\* GET /m/m/a on a router with a mount at /m over SubRouter, which has no
\* route for /m/a, and then a mount at /m that would lead to an endpoint:
\* the first mount is dispatched to and SubRouter answers not found
C17_Witness ==
    /\ call.some
    /\ call.v.scope["path"] = <<"/", "m", "/", "m", "/", "a">>
    /\ Len(router.routes) = 2
    /\ MountsMatchingAt(1) = {1, 2}
    /\ router.routes[1].app = SubRouter
    /\ router.routes[2].app = OuterRouter
    /\ Events[1].ev = "route" /\ Events[1].idx = 1
    /\ Len(Events) = 2
    /\ Events[2].ev = "not_found" /\ Events[2].router = "sub"

(***************************************************************************)
(* The Router's fallback                                                   *)
(***************************************************************************)
\* the Router acting at k redirects: redirect_slashes is on, the request is
\* http and some route matches the path with its trailing slash toggled
Redirects(k) ==
    /\ ScopeAt(k)["type"] = "http"
    /\ RouterOf(Events[k].router).redirect_slashes
    /\ Toggled(k) # <<>>
    /\ ToggledMatches(k)

\* C18: a Router with no route matching and no redirect to make hands a
\* lifespan scope to its Lifespan, never to the default, and any other
\* scope to the default it was given, never to Lifespan; the default it
\* has when given none answers an http request with 404, as a response or,
\* with "app" in the scope, as a raised HTTPException, and closes a
\* websocket
C18_LifespanOrDefault ==
    call.some =>
        /\ \A k \in RouterSteps :
              (Unmatched(k) /\ (ScopeAt(k)["type"] = "lifespan" \/ ~Redirects(k))) =>
                  LET r == RouterOf(Events[k].router)
                      scope == ScopeAt(k)
                  IN  /\ k = Len(Events)
                      /\ Events[k] =
                            IF scope["type"] = "lifespan"
                            THEN [ev |-> "lifespan", router |-> r.id]
                            ELSE IF r.default.some
                            THEN [ev |-> "default", router |-> r.id,
                                  app |-> r.default.v.id, scope |-> scope]
                            ELSE IF scope["type"] = "websocket"
                            THEN [ev |-> "close", router |-> r.id]
                            ELSE [ev |-> "not_found", router |-> r.id,
                                  error |-> [ev |-> IF "app" \in DOMAIN scope
                                                    THEN "raise" ELSE "response",
                                             status_code |-> 404]]
        /\ (\E k \in RouterSteps : Events[k].ev = "lifespan") => lifespan_pc # "idle"
        /\ call.v.scope["type"] # "lifespan" =>
              \A k \in RouterSteps : Events[k].ev # "lifespan"

\* a lifespan scope on a router that was given a default: Lifespan is
\* called, and awaits its first message, and the default is not
C18_Witness ==
    /\ call.some
    /\ call.v.scope["type"] = "lifespan"
    /\ router.default = Some(App("d"))
    /\ Events = <<[ev |-> "lifespan", router |-> "root"]>>
    /\ lifespan_pc = "receive_startup"

(***************************************************************************)
(* The back-reference                                                      *)
(***************************************************************************)
\* the events of the call that carry a scope
ScopedSteps == {k \in 1..Len(Events) : "scope" \in DOMAIN Events[k]}

\* C19: the back-reference a scope has when the Router is called stays;
\* when it has none, the Router called sets itself, and no Router nested
\* under a Mount or a Host sets another: every node, endpoint and default
\* is called with the first Router as the back-reference
C19_BackReference ==
    call.some =>
        \A k \in ScopedSteps :
            Events[k].scope["router"] = IF "router" \in DOMAIN call.v.scope
                                        THEN call.v.scope["router"]
                                        ELSE router.id

\* GET /m/m/a through a mount over OuterRouter and its mount over
\* SubRouter: three Routers have acted, and the endpoint is called with
\* the first as the back-reference
C19_Witness ==
    /\ call.some
    /\ "router" \notin DOMAIN call.v.scope
    /\ {Events[k].router : k \in RouterSteps} = {"root", "outer", "sub"}
    /\ Events[Len(Events)].ev = "endpoint"
    /\ Events[Len(Events)].scope["router"] = "root"

(***************************************************************************)
(* The node tree                                                           *)
(***************************************************************************)
\* C20, in a step: a step of a dispatch (the call of the Router, its
\* matching, the return of the handler) or of a reverse lookup leaves the
\* routes of the Router, their order, and each route's template, name,
\* methods and nested routes, and the event handlers, as they are; a step
\* that changes the routes is a registration, which appends one node and
\* leaves the others and their order as they are
C20_Step ==
    /\ (call' # call \/ lookup' # lookup) =>
           /\ router' = router
           /\ handlerVars' = handlerVars
    /\ router' # router =>
           /\ call' = call /\ lookup' = lookup
           /\ router' = [router EXCEPT !.routes = Append(@, router'.routes[Len(router'.routes)])]

StepsOf(id) == {k \in RouterSteps : Events[k].router = id}

\* the Routers called: the one the request came to, and the app of every
\* Mount and Host dispatched to that is a Router
Called ==
    {router.id} \cup {NodeAt(k).app.id : k \in {j \in RouteSteps :
                         /\ NodeAt(j).kind \in {"Mount", "Host"}
                         /\ NodeAt(j).app.kind = "Router"}}

\* C21: every Router called with an http, websocket or lifespan scope does
\* exactly one of: dispatch to one route, the first that reports FULL or
\* else the first that reports PARTIAL; redirect; call Lifespan; call its
\* default.  It does not do two of them, nor none, and after anything but
\* a dispatch the call is over
C21_OneOutcome ==
    call.some =>
        /\ \A id \in Called : Cardinality(StepsOf(id)) = 1
        /\ \A k \in RouterSteps : Events[k].router \in Called
        /\ \A k \in RouterSteps :
              IF Events[k].ev = "route"
              THEN /\ ~Unmatched(k)
                   /\ Events[k].idx = IF Reporting(k, FULL) # {}
                                      THEN Min(Reporting(k, FULL))
                                      ELSE Min(Reporting(k, PARTIAL))
                   /\ k < Len(Events)
                   /\ IF NodeAt(k).kind \in {"Mount", "Host"} /\ NodeAt(k).app.kind = "Router"
                      THEN k + 1 \in StepsOf(NodeAt(k).app.id)
                      ELSE /\ k + 1 = Len(Events)
                           /\ Events[k + 1].ev \in {"endpoint", "app", "raise", "response"}
              ELSE /\ Unmatched(k)
                   /\ k = Len(Events)
                   /\ Events[k].ev = "redirect" <=> Redirects(k)
                   /\ Events[k].ev = "lifespan" <=> ScopeAt(k)["type"] = "lifespan"

\* GET /a/ on a router with the route /a and redirect_slashes: the
\* redirect to /a is all that happens
C21_Witness ==
    /\ call.some
    /\ call.v.scope["type"] = "http"
    /\ call.v.scope["path"] = <<"/", "a", "/">>
    /\ Len(Events) = 1
    /\ Events[1].ev = "redirect"
    /\ Events[1].scope["path"] = <<"/", "a">>
    /\ lifespan_pc = "receive_shutdown"

(***************************************************************************)
(* Matching and the scope                                                  *)
(***************************************************************************)
\* the parameters node contributes when it matches: those of its template,
\* the rest of the path a Mount captures left out
Contributed(node) ==
    IF node.kind = "Mount" THEN Keys(node.param_convertors) \ {PATH}
    ELSE Keys(node.param_convertors)

\* the routes of the Router acting at k before the one it dispatched to
\* that reported a PARTIAL match
Superseded(k) == {i \in Reporting(k, PARTIAL) : i < Events[k].idx}

\* C22: the scope a Router hands on is the scope it was called with and the
\* contribution of the one node it dispatches to, and nothing of the nodes
\* it matched and did not choose: the endpoint is the chosen node's, every
\* path parameter was in the scope or is one of the chosen node's template;
\* a redirect is sent with the scope as it was, its path not toggled, and
\* the default is called with it
C22_OnlyChosenContributes ==
    call.some =>
        \A k \in RouterSteps :
            LET before == ScopeAt(k)
            IN  CASE Events[k].ev = "route" ->
                       LET after == Events[k].scope
                           chosen == matches(NodeAt(k), before).child_scope
                       IN  /\ DOMAIN after = DOMAIN before \cup DOMAIN chosen
                           /\ \A key \in DOMAIN chosen : after[key] = chosen[key]
                           /\ \A key \in DOMAIN before \ DOMAIN chosen : after[key] = before[key]
                           /\ after["endpoint"] = IF NodeAt(k).kind \in {"Mount", "Host"}
                                                  THEN NodeAt(k).app.id
                                                  ELSE NodeAt(k).endpoint.id
                           /\ Keys(after["path_params"])
                                 = Keys(ScopeGet(before, "path_params", EmptyDict))
                                     \cup Contributed(NodeAt(k))
                  [] Events[k].ev = "redirect" ->
                       /\ Events[k].context = before
                       /\ Events[k].context["path"] # Events[k].scope["path"]
                  [] Events[k].ev = "default" -> Events[k].scope = before
                  [] OTHER -> TRUE

\* GET /a on the routes /{x} (POST) and /a: the first reports PARTIAL with
\* x = "a", the second FULL, and the endpoint is called with no parameter
C22_Witness ==
    /\ call.some
    /\ Events[1].ev = "route"
    /\ Events[1].match = FULL
    /\ Superseded(1) # {}
    /\ \E i \in Superseded(1) : Contributed(router.routes[i]) # {}
    /\ Events[1].scope["path_params"] = EmptyDict

(***************************************************************************)
(* Failed candidates of a reverse lookup                                   *)
(***************************************************************************)
\* the routes among routes whose reverse resolves name with path_params
Resolving(routes, name, path_params) ==
    {j \in 1..Len(routes) : url_path_for(routes[j], name, path_params).ok}

\* the template whose placeholders node substitutes for itself
OwnTemplate(node) == IF node.kind = "Host" THEN node.host ELSE node.path

\* the format node substitutes its own parameters into
OwnFormat(node) == IF node.kind = "Host" THEN node.host_format ELSE node.path_format

\* the parameters node hands to the routes under it: those given but for
\* the ones its own template names
HandedOn(node, path_params) ==
    SelectSeq(path_params, LAMBDA e : e.k \notin TemplateNames(OwnTemplate(node)))

\* the nodes of the router that run the loop over the routes under them
\* for the lookup made
Looping ==
    {i \in 1..Len(router.routes) :
        /\ router.routes[i].kind \in {"Mount", "Host"}
        /\ NodeRoutes(router.routes[i]).some
        /\ RemainingName(router.routes[i], lookup.v.name).some}

\* C23: substitution takes the parameters it used out of the mapping it is
\* given, yet a candidate of the loop of a Router, a Mount or a Host gives
\* what it gives when it is asked alone with the name and the parameters
\* the loop started with: the lookup resolves exactly when a candidate
\* does so alone, to what the first of these gives alone, and gives the
\* same with the failing candidates taken out of the routes
C23_FailedAttemptsLeaveNoTrace ==
    lookup.some =>
        LET name == lookup.v.name
            path_params == lookup.v.path_params
            alone == Resolving(router.routes, name, path_params)
        IN  /\ lookup.v.result
                   = Router_url_path_for(
                        [router EXCEPT !.routes = SelectSeq(router.routes,
                            LAMBDA node : url_path_for(node, name, path_params).ok)],
                        name, path_params)
            /\ lookup.v.result
                   = IF alone = {} THEN NoMatchFound
                     ELSE Router_url_path_for(
                             [router EXCEPT !.routes = <<router.routes[Min(alone)]>>],
                             name, path_params)
            /\ \A i \in Looping :
                  LET node == router.routes[i]
                      routes == NodeRoutes(node).v
                      remaining_name == RemainingName(node, name).v
                      remaining_params == HandedOn(node, path_params)
                      under == Resolving(routes, remaining_name, remaining_params)
                  IN  /\ NodeResults[i].ok <=> under # {}
                      /\ NodeResults[i].ok =>
                            EndsWith(NodeResults[i].url.path,
                                     url_path_for(routes[Min(under)], remaining_name,
                                                  remaining_params).url.path)
                      /\ \A key \in Keys(path_params) \cap TemplateNames(OwnTemplate(node)) :
                            ~HasKey(replace_params(OwnFormat(node), node.param_convertors,
                                                   path_params).path_params, key)

\* "m:m:i" looked up with u = "b" on the mounts /{u}/ over SubRouter and
\* /{u}/ over OuterRouter, both named "m": the first substitutes u and
\* finds no "m:i" under it, the second resolves it to /b/m/a
C23_Witness ==
    /\ lookup.some
    /\ Len(router.routes) = 2
    /\ 1 \in Looping
    /\ HandedOn(router.routes[1], lookup.v.path_params) # lookup.v.path_params
    /\ ~NodeResults[1].ok
    /\ NodeResults[2].ok
    /\ lookup.v.result = URLPath(<<"/", "b", "/", "m", "/", "a">>, "http", <<>>)

=============================================================================
